---- MODULE Spec2Model ----
(***************************************************************************)
(* PAIM hybrid memory engine: the sensory buffer (pkg/memory), the log,    *)
(* graph and vector stores (pkg/store/...) and the MemoryEngine that       *)
(* orchestrates them (Observe / Consolidate), with the periodic            *)
(* consolidation loop of cmd/server.                                       *)
(*                                                                         *)
(* The specifications share the variables:                                 *)
(*   SpecBuf   the SensoryBuffer alone, driven by arbitrary sequences of   *)
(*             Add, Snapshot and Clear under an injectable clock;          *)
(*   Spec      the engine: Observe callers and the single consolidation    *)
(*             task, interleaved at the granularity of the buffer mutex    *)
(*             and of the single-connection database, the clock running;   *)
(*   SpecVec   the engine with the vector index enabled;                   *)
(*   SpecBatch the engine consolidating batches of several observations;   *)
(*   SpecConc  the engine with two callers inside Observe at once;         *)
(*   SpecRecall, SpecGraph, SpecDistill, SpecMutex, SpecCfg, SpecDegraded  *)
(*             Recall, the graph store, the distiller, the buffer mutex,   *)
(*             the configured capacity and the disabled vector port;       *)
(*   SpecTx    UpsertEmbedding statement by statement;                     *)
(*   SpecLoop  the consolidation loop (SpecLoopLive: with fairness);       *)
(*   SpecRetry Consolidate retried on one buffer;                          *)
(*   SpecFull  Observe, Recall and Consolidate interleaved.                *)
(***************************************************************************)
EXTENDS Integers, Sequences, FiniteSets, TLC

\* ------------------------------------------------------------------ bounds
MaxCapacity == 3        \* buffer capacities explored: 1..MaxCapacity
MaxTTL      == 2        \* TTLs explored, in clock ticks: 1..MaxTTL
MaxTime     == 2        \* the clock runs 0..MaxTime
MaxBatch    == 3        \* SpecBatch, SpecBuf: Observe (Add) calls per behaviour
MaxCalls    == 2        \* Spec, SpecVec: Observe calls per behaviour
VectorDim   == 1        \* the configured embedding dimension (default 1536)
MaxFacts    == 11       \* SpecRecall: rows of table triples: 0..MaxFacts
MaxLogs     == 6        \* SpecRecall: rows of memory_logs: 0..MaxLogs
MaxLen      == 3        \* SpecDistill: observations per batch: 0..MaxLen
MaxUpserts  == 4        \* SpecGraph: UpsertTriple calls per behaviour
MaxTopK     == 5        \* SpecRecall: topK of a Recall: -1..MaxTopK

\* ------------------------------------------------------- program constants
SnippetMax == 80        \* distill: len(snippet) > 80 -> snippet[:80]

\* The HTTP handlers that may be inside Observe; SpecConc runs both at the
\* same time, the other specifications one.
Observers == {"h1", "h2"}
Single == {"h1"}

\* SpecMutex: a handler inside Observe's buffer.Add and the consolidation
\* task inside Snapshot or Clear, as goroutines.
Goroutines == {"g1", "g2"}

\* --------------------------------------------------------------- the inputs
\* model.SensoryInput{Content, Source, Metadata}.  Metadata is read only
\* through the keys subject/predicate/object; a missing key and a key that
\* is not a string both read as "" (the failed type assertion).
NoMeta == [subject |-> "", predicate |-> "", object |-> ""]

InEmpty == [content |-> "", source |-> "chat", metadata |-> NoMeta]
InBlank == [content |-> "  ", source |-> "chat", metadata |-> NoMeta]
InChat  == [content |-> "just chatting", source |-> "chat", metadata |-> NoMeta]
InNote  == [content |-> " memo ", source |-> " ", metadata |-> NoMeta]
InAlice == [content |-> "Alice likes vectors", source |-> "chat",
            metadata |-> [subject |-> "Alice", predicate |-> "likes",
                          object |-> "vectors"]]

Inputs == {InEmpty, InBlank, InChat, InNote, InAlice}

\* The module is kept in ASCII: in the contents below "^" stands for a rune
\* that UTF-8 encodes on two bytes (U+00E9, 0xC3 0xA9), and LeadByte is how
\* the first of its two bytes, left alone at the end of a string, is written.
TwoByteRunes == {"^"}
LeadByte == "\\xc3"

Ten == "0123456789"
Seventy == Ten \o Ten \o Ten \o Ten \o Ten \o Ten \o Ten

\* 85 one-byte runes after a blank; 79 one-byte runes, a two-byte rune and
\* one more (81 runes, 82 bytes).
InLong   == [content |-> " " \o Seventy \o Ten \o "abcde", source |-> "chat",
             metadata |-> NoMeta]
InAccent == [content |-> Seventy \o "012345678" \o "^" \o "z", source |-> "chat",
             metadata |-> NoMeta]

\* What Distill is fed in SpecDistill.
DistillInputs == Inputs \cup {InLong, InAccent}

\* What the buffer is fed in SpecBuf (Add never reads its input), and what
\* the callers of Observe send in Spec.
BufInputs == {InChat, InAlice}
ObserveInputs == {InEmpty, InChat, InAlice}

VARIABLES
    capacity,   \* SensoryBuffer.capacity
    ttl,        \* SensoryBuffer.ttl
    now,        \* the clock (time.Now)
    items,      \* SensoryBuffer.items: <<[at, input, cid]>>, cid a ghost identity
    nextCall,   \* identity of the next Observe/Add call
    callLimit,  \* how many Observe/Add calls the behaviour may make (a bound)
    \* ghosts of the buffer
    evicted,    \* cids dropped by Add's capacity slice
    expired,    \* cids purged by Snapshot's TTL filter
    cleared,    \* cids removed by Clear
    panicked,   \* an Add has panicked (slice bounds out of range)
    hist,       \* SpecBuf: the items added since the last Clear
    lastOp,     \* SpecBuf: the last buffer operation
    lastOut,    \* SpecBuf: what the last Snapshot returned
    \* the stores
    vssEnabled, \* vector.Store.enabled (Database.enableVSS)
    logs,       \* table memory_logs: set of rows (timestamp column left out)
    triples,    \* table triples: rows in insertion order, which is also the
                \* order of created_at (column left out); id = position
    vssMemories,\* virtual table vss_memories: set of rowids
    vssPayload, \* table vss_payload: set of [rowid, log_id]
    \* Observe, per caller
    opc,        \* position: "idle", "add", "embed", "done"
    oin,        \* the input of the call
    oid,        \* the call's identity; the log id when InsertLog succeeds
    ores,       \* what the call returned: "none" while running
    ocalls,     \* ghost: the collaborators the call has invoked
    \* Consolidate, the single periodic task
    cpc,        \* position: "idle", "distill", "upsert", "clear", "done"
    csnap,      \* the snapshot (buffer items; Outputs(csnap) is what Distill gets)
    csnapAt,    \* ghost: the clock when the snapshot was taken
    cfacts,     \* the triples Distill returned
    cattempted, \* ghost: the UpsertTriple calls of this run, <<[fact, ok]>>
    cres,       \* what the run returned: "none" while running
    ccalls,     \* ghost: the collaborators the run has invoked
    graph0,     \* ghost: table triples when the run began
    distilled,  \* ghost: cids ever handed to Distill
    \* Recall, one caller
    rpc,        \* position: "idle", "vector", "done"
    rquery,     \* the query of the call
    rtopK,      \* the topK of the call
    rfacts,     \* facts: what m.graph.SearchFacts returned
    rout,       \* the *RecalledContext returned (NoContext: nil)
    rres,       \* the error returned: "none" while running, "ok" for nil
    rcalls,     \* ghost: the collaborators the call has invoked
    \* SpecGraph
    written,    \* ghost: the triples of the UpsertTriple calls that succeeded
    \* SpecDistill
    dpc,        \* "idle" before the Distill call, "done" after
    dbatch,     \* the inputs handed to Distill
    dout,       \* the triples Distill returned
    derr,       \* the error Distill returned ("nil")
    \* SpecMutex: goroutines calling the buffer's operations
    mu,         \* SensoryBuffer.mu: "free" or the goroutine holding it
    tpc,        \* per goroutine: position inside the operation
    top,        \* per goroutine: the operation it is in
    tloc,       \* per goroutine: the local slice (filtered) of Snapshot
    serial,     \* ghost: the buffer the operations give run one at a time,
                \* in the order they took the lock
    \* SpecDegraded: direct calls of the vector port
    pcall,      \* the last port operation called
    pres,       \* per port operation: what its last call returned
    \* SpecTx: UpsertEmbedding statement by statement
    upc,        \* position: "idle", "index", "rowid", "payload", "commit", "done"
    ulog,       \* the logID argument
    urow,       \* rowID, from res.LastInsertId()
    ures,       \* the error returned: "none" while running, "nil" for success
    txMemories, \* rows of vss_memories written by the open transaction
    txPayload,  \* rows of vss_payload written by the open transaction
    \* SpecLoop: startConsolidationLoop
    lpc,        \* the loop goroutine: "select", "call" (inside Consolidate), "stopped"
    tickC,      \* ticker.C, a channel of capacity 1: the ticks waiting in it
    cancelled,  \* ctx.Done() is closed
    active,     \* ghost: the Consolidate executions begun and not yet returned
    llog        \* what the loop did with the last return: "none", "nil", "error"

bufVars == <<capacity, ttl, now, items, nextCall, callLimit, evicted, expired,
             cleared, panicked>>
ghostBufVars == <<hist, lastOp, lastOut>>
storeVars == <<vssEnabled, logs, triples, vssMemories, vssPayload>>
obsVars == <<opc, oin, oid, ores, ocalls>>
conVars == <<cpc, csnap, csnapAt, cfacts, cattempted, cres, ccalls, graph0,
             distilled>>
recVars == <<rpc, rquery, rtopK, rfacts, rout, rres, rcalls>>

upsertVars == <<written>>
distVars == <<dpc, dbatch, dout, derr>>
mutexVars == <<mu, tpc, top, tloc, serial>>
txVars == <<upc, ulog, urow, ures, txMemories, txPayload>>
portVars == <<pcall, pres, txVars>>
loopVars == <<lpc, tickC, cancelled, active, llog>>

\* What Recall never touches.
baseVars == <<bufVars, ghostBufVars, storeVars, obsVars, conVars>>

\* What Observe, Consolidate and the buffer operations never touch.
otherVars == <<recVars, upsertVars, distVars, mutexVars, portVars, loopVars>>

vars == <<bufVars, ghostBufVars, storeVars, obsVars, conVars, otherVars>>

\* ------------------------------------------------------------ SensoryBuffer
Cids(its) == {its[i].cid : i \in 1..Len(its)}

\* Add with the newest entry dropped instead of the oldest.
AddDropNewest(its, input, t, cap, cid) ==
    LET appended == Append(its, [at |-> t, input |-> input, cid |-> cid])
    IN  IF Len(appended) > cap THEN SubSeq(appended, 1, cap) ELSE appended

\* Add with the slice start off by one (keeps capacity - 1 entries).
AddOffByOne(its, input, t, cap, cid) ==
    LET appended == Append(its, [at |-> t, input |-> input, cid |-> cid])
    IN  IF Len(appended) > cap
        THEN SubSeq(appended, Len(appended) - cap + 2, Len(appended))
        ELSE appended

\* b.items = append(b.items, item); if len > capacity: items[len-capacity:]
\* With a negative capacity the slice's low bound len-capacity lies above
\* len: the slice expression panics, after the append has been stored.
Add(its, input, t, cap, cid) ==
    LET appended == Append(its, [at |-> t, input |-> input, cid |-> cid])
    IN  IF Len(appended) > cap
        THEN IF Len(appended) - cap > Len(appended)
             THEN appended
             ELSE SubSeq(appended, Len(appended) - cap + 1, Len(appended))
        ELSE appended

\* The slice expression items[len-capacity:] of Add is out of range.
AddPanics(its, cap) ==
    /\ Len(its) + 1 > cap
    /\ Len(its) + 1 - cap > Len(its) + 1

\* The TTL filter keeping the entry whose age is exactly the TTL.
FilterInclusive(its, t, T) == SelectSeq(its, LAMBDA it : it.at >= t - T)

\* cutoff := now - ttl; keep item iff item.at.After(cutoff)
Filter(its, t, T) == SelectSeq(its, LAMBDA it : it.at > t - T)

\* outputs[i] = filtered[i].input
Outputs(its) == [i \in 1..Len(its) |-> its[i].input]

\* Clear: b.items = nil
Cleared(its) == << >>

\* The three operations as they act on the buffer and its ghosts.
BufferAdd(input, cid) ==
    /\ items' = Add(items, input, now, capacity, cid)
    /\ evicted' = evicted \cup ((Cids(items) \cup {cid}) \ Cids(items'))
    /\ panicked' = (panicked \/ AddPanics(items, capacity))

\* A Snapshot that empties the buffer once it has read it.
BufferSnapshotClearing ==
    /\ items' = << >>
    /\ expired' = expired \cup (Cids(items) \ Cids(Filter(items, now, ttl)))

BufferSnapshot ==
    /\ items' = Filter(items, now, ttl)
    /\ expired' = expired \cup (Cids(items) \ Cids(items'))

BufferClear ==
    /\ items' = Cleared(items)
    /\ cleared' = cleared \cup Cids(items)

Advance == now < MaxTime /\ now' = now + 1

\* ---------------------------------------------------------------- log store
\* InsertLog without its validation.
ContentAlwaysOk(input) == TRUE

\* InsertLog's validation: if input.Content == "" -> "content is required"
ContentOk(input) == input.content # ""

\* The memory_logs row InsertLog writes (id = uuid.NewString(), fresh).
LogRow(id, input) ==
    [id |-> id, source_type |-> input.source,
     content |-> input.content, metadata |-> input.metadata]

LogIds == {r.id : r \in logs}

\* -------------------------------------------------------------- graph store
SameTriple(row, t) ==
    /\ row.subject = t.subject
    /\ row.predicate = t.predicate
    /\ row.object = t.object

\* A plain INSERT into a table without the UNIQUE constraint.
UpsertTripleInsertOnly(rows, t) ==
    Append(rows, [id |-> Len(rows) + 1, subject |-> t.subject,
                  predicate |-> t.predicate, object |-> t.object,
                  confidence |-> t.confidence])

\* The upsert leaving an existing row as it is (ON CONFLICT DO NOTHING).
UpsertTripleKeepFirst(rows, t) ==
    IF \E i \in 1..Len(rows) : SameTriple(rows[i], t)
    THEN rows
    ELSE Append(rows, [id |-> Len(rows) + 1, subject |-> t.subject,
                       predicate |-> t.predicate, object |-> t.object,
                       confidence |-> t.confidence])

\* INSERT ... ON CONFLICT(subject, predicate, object)
\*            DO UPDATE SET confidence = excluded.confidence
UpsertTriple(rows, t) ==
    IF \E i \in 1..Len(rows) : SameTriple(rows[i], t)
    THEN [i \in 1..Len(rows) |->
            IF SameTriple(rows[i], t)
            THEN [rows[i] EXCEPT !.confidence = t.confidence]
            ELSE rows[i]]
    ELSE Append(rows, [id |-> Len(rows) + 1, subject |-> t.subject,
                       predicate |-> t.predicate, object |-> t.object,
                       confidence |-> t.confidence])

HasTriple(rows, t) == \E i \in 1..Len(rows) : SameTriple(rows[i], t)

InGraph(rows, t) ==
    \E i \in 1..Len(rows) :
        SameTriple(rows[i], t) /\ rows[i].confidence = t.confidence

\* ------------------------------------------------------------- vector store
\* An embedding is modelled by its components; only its length is read.
Vec(n) == [i \in 1..n |-> 1]

\* What an EmbeddingClient may return for a text: an error, or a vector that
\* is empty, of the configured dimension, or of another dimension.
EmbedResults ==
    {[ok |-> FALSE, vec |-> Vec(0)]} \cup
    {[ok |-> TRUE, vec |-> Vec(n)] : n \in {0, VectorDim, VectorDim + 1}}

\* UpsertEmbedding's checks before the transaction: empty vector, or a
\* length other than the configured dimension.
EmbeddingRejected(emb) ==
    \/ Len(emb) = 0
    \/ (VectorDim > 0 /\ Len(emb) # VectorDim)

NextRowId == IF vssMemories = {} THEN 1
             ELSE 1 + CHOOSE r \in vssMemories : \A q \in vssMemories : q <= r

\* ------------------------------------------------------------------ distill
IsSpace(c) == c = " "

RECURSIVE TrimLeft(_)
TrimLeft(s) ==
    IF Len(s) > 0 /\ IsSpace(SubSeq(s, 1, 1))
    THEN TrimLeft(SubSeq(s, 2, Len(s))) ELSE s

RECURSIVE TrimRight(_)
TrimRight(s) ==
    IF Len(s) > 0 /\ IsSpace(SubSeq(s, Len(s), Len(s)))
    THEN TrimRight(SubSeq(s, 1, Len(s) - 1)) ELSE s

\* strings.TrimSpace
TrimSpace(s) == TrimRight(TrimLeft(s))

\* defaultIfEmpty(v, def)
DefaultIfEmpty(v, def) == IF TrimSpace(v) = "" THEN def ELSE v

\* A Go string is a sequence of bytes holding UTF-8: len and s[:n] count
\* bytes.  The model writes a string rune by rune; every rune of the inputs
\* is one byte wide except those of TwoByteRunes.
Utf8Len(c) == IF c \in TwoByteRunes THEN 2 ELSE 1

\* len(s)
ByteLen(s) ==
    Len(s) + Cardinality({i \in 1..Len(s) : Utf8Len(SubSeq(s, i, i)) = 2})

\* s[:n]: the runes that lie within the first n bytes and, when the cut falls
\* inside a rune, the bytes of it before the cut.
ByteSlice(s, n) ==
    LET whole == {k \in 0..Len(s) : ByteLen(SubSeq(s, 1, k)) <= n}
        k == CHOOSE j \in whole : \A l \in whole : l <= j
    IN  IF k < Len(s) /\ ByteLen(SubSeq(s, 1, k)) < n
        THEN SubSeq(s, 1, k) \o LeadByte
        ELSE SubSeq(s, 1, k)

\* snippet := TrimSpace(content); if len(snippet) > 80 { snippet = snippet[:80] }
Snippet(content) ==
    LET t == TrimSpace(content)
    IN  IF ByteLen(t) > SnippetMax THEN ByteSlice(t, SnippetMax) ELSE t

\* The distiller without its metadata rule.
DistillOneNotesOnly(in) ==
    IF Snippet(in.content) = ""
    THEN << >>
    ELSE << [subject |-> DefaultIfEmpty(in.source, "user"),
             predicate |-> "notes",
             object |-> Snippet(in.content), confidence |-> "0.4"] >>

\* The triples one input contributes (none or one).
DistillOne(in) ==
    IF /\ in.metadata.subject # ""
       /\ in.metadata.predicate # ""
       /\ in.metadata.object # ""
    THEN << [subject |-> in.metadata.subject,
             predicate |-> in.metadata.predicate,
             object |-> in.metadata.object, confidence |-> "0.9"] >>
    ELSE IF Snippet(in.content) = ""
    THEN << >>
    ELSE << [subject |-> DefaultIfEmpty(in.source, "user"),
             predicate |-> "notes",
             object |-> Snippet(in.content), confidence |-> "0.4"] >>

\* HeuristicDistiller.Distill: for _, in := range inputs { ... }
RECURSIVE Distill(_)
Distill(inputs) ==
    IF inputs = << >> THEN << >>
    ELSE DistillOne(Head(inputs)) \o Distill(Tail(inputs))

\* ------------------------------------------------------------------- recall
GraphDefaultLimit == 10     \* SearchFacts: if limit <= 0 { limit = 10 }
VectorDefaultTopK == 5      \* Search: if topK <= 0 { topK = 5 }

\* s LIKE '%term%' (the case folding and the wildcards of LIKE left out: the
\* queries explored hold neither upper/lower variants nor % or _).
Contains(s, term) ==
    \E i \in 1..(Len(s) - Len(term) + 1) : SubSeq(s, i, i + Len(term) - 1) = term

Reverse(seq) == [i \in 1..Len(seq) |-> seq[Len(seq) - i + 1]]

\* The search without its LIMIT.
SearchFactsNoLimit(rows, term, limit) ==
    SelectSeq(Reverse(rows),
              LAMBDA r : Contains(r.subject, term) \/ Contains(r.object, term))

\* SELECT ... FROM triples WHERE subject LIKE ? OR object LIKE ?
\* ORDER BY created_at DESC LIMIT ?   (rows are kept in insertion order)
SearchFacts(rows, term, limit) ==
    LET lim == IF limit <= 0 THEN GraphDefaultLimit ELSE limit
        hits == SelectSeq(Reverse(rows),
                          LAMBDA r : Contains(r.subject, term) \/ Contains(r.object, term))
    IN  SubSeq(hits, 1, IF Len(hits) < lim THEN Len(hits) ELSE lim)

\* vector.Store.Search: if topK <= 0 { topK = 5 }
SearchTopK(topK) == IF topK <= 0 THEN VectorDefaultTopK ELSE topK

\* vector.Store.Search's dimension check.
SearchRejected(emb) == VectorDim > 0 /\ Len(emb) # VectorDim

\* SELECT p.log_id FROM vss_memories JOIN vss_payload ... MATCH ... LIMIT ?
\* Which rows match is the index's choice; there are at most LIMIT of them.
SearchResults(payload, topK) ==
    {S \in SUBSET payload : Cardinality(S) <= SearchTopK(topK)}

\* SELECT ... FROM memory_logs WHERE id IN (ids)
FetchLogs(rows, ids) == {r \in rows : r.id \in ids}

\* vector.Store's operations, as called directly.
PortOps == {"UpsertEmbedding", "Search"}

\* No port call made yet.
NoPortResult == [err |-> "none", ids |-> {}, wrote |-> FALSE]

\* return nil, err
NoContext == [nil |-> TRUE, facts |-> << >>, logs |-> {}]

\* &model.RecalledContext{RelatedLogs: logs, RelatedFacts: facts}
RecalledContext(ls, fs) == [nil |-> FALSE, facts |-> fs, logs |-> ls]

\* ------------------------------------------------------------------- Init
\* NewMemoryEngine: empty buffer, nobody inside a call.
InitEngine ==
    /\ now = 0
    /\ items = << >>
    /\ nextCall = 1
    /\ evicted = {} /\ expired = {} /\ cleared = {} /\ panicked = FALSE
    /\ hist = << >> /\ lastOp = "New" /\ lastOut = << >>
    /\ opc = [h \in Observers |-> "idle"]
    /\ oin = [h \in Observers |-> InEmpty]
    /\ oid = [h \in Observers |-> 0]
    /\ ores = [h \in Observers |-> "none"]
    /\ ocalls = [h \in Observers |-> {}]
    /\ cpc = "idle" /\ csnap = << >> /\ csnapAt = 0 /\ cfacts = << >>
    /\ cattempted = << >> /\ cres = "none" /\ ccalls = {}
    /\ graph0 = << >> /\ distilled = {}
    /\ rpc = "idle" /\ rquery = "" /\ rtopK = 0 /\ rfacts = << >>
    /\ rout = NoContext /\ rres = "none" /\ rcalls = {}
    /\ written = << >>
    /\ dpc = "idle" /\ dbatch = << >> /\ dout = << >> /\ derr = "none"
    /\ mu = "free"
    /\ tpc = [t \in Goroutines |-> "idle"]
    /\ top = [t \in Goroutines |-> "none"]
    /\ tloc = [t \in Goroutines |-> << >>]
    /\ serial = << >>
    /\ pcall = "none" /\ pres = [op \in PortOps |-> NoPortResult]
    /\ upc = "idle" /\ ulog = 0 /\ urow = 0 /\ ures = "none"
    /\ txMemories = {} /\ txPayload = {}
    /\ lpc = "select" /\ tickC = 0 /\ cancelled = FALSE /\ active = 0
    /\ llog = "none"

\* ensureSchema on a new database file: the tables exist and are empty.
EmptyDatabase ==
    /\ logs = {} /\ triples = << >>
    /\ vssMemories = {} /\ vssPayload = {}

\* NewMemoryEngine over a new database file.
InitCommon == InitEngine /\ EmptyDatabase

Min(a, b) == IF a < b THEN a ELSE b

\* The configurations explored.  A capacity above the number of calls never
\* evicts, so capacities stop at the call limit.
Configured(calls, ttls, vss) ==
    /\ callLimit = calls
    /\ capacity \in 1..Min(MaxCapacity, calls)
    /\ ttl \in ttls
    /\ vssEnabled \in vss

\* SpecBuf: every capacity and TTL, the clock running.
InitBuf == InitCommon /\ Configured(MaxBatch, 1..MaxTTL, {FALSE})

\* SpecBatch: batches of up to MaxBatch observations, at one instant of the
\* clock, the vector index disabled (PAIM_ENABLE_VSS=false, the default).
InitBatch == InitCommon /\ Configured(MaxBatch, {MaxTTL}, {FALSE})

\* SpecVec: the vector index enabled, at one instant of the clock.
InitVec == InitCommon /\ Configured(MaxCalls, {MaxTTL}, {TRUE})

\* SpecConc: two callers inside Observe at once, at one instant of the clock.
InitConc == InitCommon /\ Configured(MaxCalls, {MaxTTL}, {FALSE})

\* Spec: the clock running, the vector index disabled.
Init == InitCommon /\ Configured(MaxCalls, 1..MaxTTL, {FALSE})

\* ------------------------------------------- SpecBuf: the buffer on its own
BufAdd(input) ==
    /\ nextCall <= callLimit
    /\ BufferAdd(input, nextCall)
    /\ nextCall' = nextCall + 1
    /\ hist' = Append(hist, [at |-> now, input |-> input, cid |-> nextCall])
    /\ lastOp' = "Add"
    /\ UNCHANGED <<capacity, callLimit, ttl, now, expired, cleared, lastOut>>
    /\ UNCHANGED <<storeVars, obsVars, conVars>>
    /\ UNCHANGED otherVars

BufSnapshot ==
    /\ BufferSnapshot
    /\ lastOut' = Outputs(items')
    /\ lastOp' = "Snapshot"
    /\ UNCHANGED <<capacity, callLimit, ttl, now, nextCall, evicted, panicked, cleared, hist>>
    /\ UNCHANGED <<storeVars, obsVars, conVars>>
    /\ UNCHANGED otherVars

BufClear ==
    /\ BufferClear
    /\ hist' = << >>
    /\ lastOp' = "Clear"
    /\ UNCHANGED <<capacity, callLimit, ttl, now, nextCall, evicted, panicked, expired, lastOut>>
    /\ UNCHANGED <<storeVars, obsVars, conVars>>
    /\ UNCHANGED otherVars

BufTick ==
    /\ Advance
    /\ lastOp' = "Tick"
    /\ UNCHANGED <<capacity, callLimit, ttl, items, nextCall, evicted, panicked, expired, cleared,
                   hist, lastOut>>
    /\ UNCHANGED <<storeVars, obsVars, conVars>>
    /\ UNCHANGED otherVars

NextBuf ==
    \/ \E input \in BufInputs : BufAdd(input)
    \/ BufSnapshot
    \/ BufClear
    \/ BufTick

SpecBuf == InitBuf /\ [][NextBuf]_vars

\* ------------------------------------------------------ Spec: MemoryEngine
\* Observe going on to the buffer when InsertLog has failed.
ObserveInsertLogIgnoringError(h, input) ==
    /\ opc[h] = "idle"
    /\ nextCall <= callLimit
    /\ nextCall' = nextCall + 1
    /\ oin' = [oin EXCEPT ![h] = input]
    /\ oid' = [oid EXCEPT ![h] = nextCall]
    /\ ocalls' = [ocalls EXCEPT ![h] = {"InsertLog"}]
    /\ opc' = [opc EXCEPT ![h] = "add"]
    /\ \E dbOk \in BOOLEAN :
         logs' = IF ContentOk(input) /\ dbOk
                 THEN logs \cup {LogRow(nextCall, input)}
                 ELSE logs
    /\ UNCHANGED ores
    /\ UNCHANGED <<capacity, callLimit, ttl, now, items, evicted, panicked, expired, cleared>>
    /\ UNCHANGED <<ghostBufVars, conVars>>
    /\ UNCHANGED <<vssEnabled, triples, vssMemories, vssPayload>>
    /\ UNCHANGED otherVars

\* POST /remember reaches engine.Observe(ctx, input), whose first statement is
\* logID, err := m.db.InsertLog(ctx, input); if err != nil { return err }
ObserveInsertLog(h, input) ==
    /\ opc[h] = "idle"
    /\ nextCall <= callLimit
    /\ nextCall' = nextCall + 1
    /\ oin' = [oin EXCEPT ![h] = input]
    /\ oid' = [oid EXCEPT ![h] = nextCall]
    /\ ocalls' = [ocalls EXCEPT ![h] = {"InsertLog"}]
    /\ \E dbOk \in BOOLEAN :
         IF ContentOk(input) /\ dbOk
         THEN /\ logs' = logs \cup {LogRow(nextCall, input)}
              /\ opc' = [opc EXCEPT ![h] = "add"]
              /\ UNCHANGED ores
         ELSE /\ opc' = [opc EXCEPT ![h] = "done"]
              /\ ores' = [ores EXCEPT ![h] = "err_log"]
              /\ UNCHANGED logs
    /\ UNCHANGED <<capacity, callLimit, ttl, now, items, evicted, panicked, expired, cleared>>
    /\ UNCHANGED <<ghostBufVars, conVars>>
    /\ UNCHANGED <<vssEnabled, triples, vssMemories, vssPayload>>
    /\ UNCHANGED otherVars

\* Observe going on to the vector index without the buffer append.
ObserveAddSkipped(h) ==
    /\ opc[h] = "add"
    /\ opc' = [opc EXCEPT ![h] = "embed"]
    /\ UNCHANGED <<bufVars, ghostBufVars, storeVars, conVars>>
    /\ UNCHANGED <<oin, oid, ores, ocalls>>
    /\ UNCHANGED otherVars

\* m.buffer.Add(input)
ObserveAdd(h) ==
    /\ opc[h] = "add"
    /\ BufferAdd(oin[h], oid[h])
    /\ ocalls' = [ocalls EXCEPT ![h] = @ \cup {"Add"}]
    /\ opc' = [opc EXCEPT ![h] = "embed"]
    /\ UNCHANGED <<capacity, callLimit, ttl, now, nextCall, expired, cleared>>
    /\ UNCHANGED <<ghostBufVars, storeVars, conVars, oin, oid, ores>>
    /\ UNCHANGED otherVars

\* Observe embedding and indexing without asking whether the index is enabled.
ObserveEmbedAlways(h) ==
    /\ opc[h] = "embed"
    /\ opc' = [opc EXCEPT ![h] = "done"]
    /\ \E emb \in EmbedResults, txOk \in BOOLEAN :
         IF ~emb.ok
         THEN /\ ores' = [ores EXCEPT ![h] = "err_embed"]
              /\ ocalls' = [ocalls EXCEPT ![h] = @ \cup {"EmbedText"}]
              /\ UNCHANGED <<vssMemories, vssPayload>>
         ELSE /\ ocalls' = [ocalls EXCEPT ![h] =
                              @ \cup {"EmbedText", "UpsertEmbedding"}]
              /\ IF vssEnabled /\ (EmbeddingRejected(emb.vec) \/ ~txOk)
                 THEN /\ ores' = [ores EXCEPT ![h] = "err_upsert"]
                      /\ UNCHANGED <<vssMemories, vssPayload>>
                 ELSE /\ ores' = [ores EXCEPT ![h] = "ok"]
                      /\ vssMemories' = IF vssEnabled
                                        THEN vssMemories \cup {NextRowId}
                                        ELSE vssMemories
                      /\ vssPayload' = IF vssEnabled
                                       THEN vssPayload \cup
                                            {[rowid |-> NextRowId, log_id |-> oid[h]]}
                                       ELSE vssPayload
    /\ UNCHANGED <<bufVars, ghostBufVars, conVars, oin, oid>>
    /\ UNCHANGED <<vssEnabled, logs, triples>>
    /\ UNCHANGED otherVars

\* if m.vec.Enabled() && m.embedder != nil { EmbedText; UpsertEmbedding }
\* return nil
ObserveEmbed(h) ==
    /\ opc[h] = "embed"
    /\ opc' = [opc EXCEPT ![h] = "done"]
    /\ IF ~vssEnabled
       THEN /\ ores' = [ores EXCEPT ![h] = "ok"]
            /\ UNCHANGED <<ocalls, vssMemories, vssPayload>>
       ELSE \E emb \in EmbedResults, txOk \in BOOLEAN :
              IF ~emb.ok
              THEN /\ ores' = [ores EXCEPT ![h] = "err_embed"]
                   /\ ocalls' = [ocalls EXCEPT ![h] = @ \cup {"EmbedText"}]
                   /\ UNCHANGED <<vssMemories, vssPayload>>
              ELSE /\ ocalls' = [ocalls EXCEPT ![h] =
                                   @ \cup {"EmbedText", "UpsertEmbedding"}]
                   /\ IF EmbeddingRejected(emb.vec) \/ ~txOk
                      THEN /\ ores' = [ores EXCEPT ![h] = "err_upsert"]
                           /\ UNCHANGED <<vssMemories, vssPayload>>
                      ELSE /\ ores' = [ores EXCEPT ![h] = "ok"]
                           /\ vssMemories' = vssMemories \cup {NextRowId}
                           /\ vssPayload' = vssPayload \cup
                                {[rowid |-> NextRowId, log_id |-> oid[h]]}
    /\ UNCHANGED <<bufVars, ghostBufVars, conVars, oin, oid>>
    /\ UNCHANGED <<vssEnabled, logs, triples>>
    /\ UNCHANGED otherVars

\* Observe has returned; the handler answers and is free for the next request.
ObserveReturn(h) ==
    /\ opc[h] = "done"
    /\ opc' = [opc EXCEPT ![h] = "idle"]
    /\ oin' = [oin EXCEPT ![h] = InEmpty]
    /\ oid' = [oid EXCEPT ![h] = 0]
    /\ ores' = [ores EXCEPT ![h] = "none"]
    /\ ocalls' = [ocalls EXCEPT ![h] = {}]
    /\ UNCHANGED <<bufVars, ghostBufVars, storeVars, conVars>>
    /\ UNCHANGED otherVars

\* Consolidate going on to Distill whatever the snapshot holds.
ConsolidateSnapshotNoEarlyReturn ==
    /\ cpc = "idle"
    /\ BufferSnapshot
    /\ csnap' = items'
    /\ csnapAt' = now
    /\ graph0' = triples
    /\ ccalls' = {"Snapshot"}
    /\ cpc' = "distill"
    /\ UNCHANGED <<capacity, callLimit, ttl, now, nextCall, evicted, panicked, cleared>>
    /\ UNCHANGED <<ghostBufVars, storeVars, obsVars>>
    /\ UNCHANGED <<cfacts, cattempted, cres, distilled>>
    /\ UNCHANGED otherVars

\* Consolidate emptying the buffer as it takes the snapshot.
ConsolidateSnapshotAndClear ==
    /\ cpc = "idle"
    /\ csnap' = Filter(items, now, ttl)
    /\ expired' = expired \cup (Cids(items) \ Cids(csnap'))
    /\ items' = << >>
    /\ cleared' = cleared \cup Cids(csnap')
    /\ csnapAt' = now
    /\ graph0' = triples
    /\ ccalls' = {"Snapshot", "Clear"}
    /\ IF Len(csnap') = 0
       THEN cpc' = "done" /\ cres' = "ok"
       ELSE cpc' = "distill" /\ UNCHANGED cres
    /\ UNCHANGED <<capacity, callLimit, ttl, now, nextCall, evicted, panicked>>
    /\ UNCHANGED <<ghostBufVars, storeVars, obsVars>>
    /\ UNCHANGED <<cfacts, cattempted, distilled>>
    /\ UNCHANGED otherVars

\* startConsolidationLoop: case <-ticker.C: engine.Consolidate(ctx), whose
\* first statements are
\* snapshot := m.buffer.Snapshot(); if len(snapshot) == 0 { return nil }
ConsolidateSnapshot ==
    /\ cpc = "idle"
    /\ BufferSnapshot
    /\ csnap' = items'
    /\ csnapAt' = now
    /\ graph0' = triples
    /\ ccalls' = {"Snapshot"}
    /\ IF Len(csnap') = 0
       THEN cpc' = "done" /\ cres' = "ok"
       ELSE cpc' = "distill" /\ UNCHANGED cres
    /\ UNCHANGED <<capacity, callLimit, ttl, now, nextCall, evicted, panicked, cleared>>
    /\ UNCHANGED <<ghostBufVars, storeVars, obsVars>>
    /\ UNCHANGED <<cfacts, cattempted, distilled>>
    /\ UNCHANGED otherVars

\* triples, err := m.distiller.Distill(ctx, snapshot); if err != nil { return err }
ConsolidateDistill ==
    /\ cpc = "distill"
    /\ ccalls' = ccalls \cup {"Distill"}
    /\ distilled' = distilled \cup Cids(csnap)
    /\ \E ok \in BOOLEAN :
         IF ok
         THEN /\ cfacts' = Distill(Outputs(csnap))
              /\ cpc' = IF Len(cfacts') = 0 THEN "clear" ELSE "upsert"
              /\ UNCHANGED cres
         ELSE /\ cpc' = "done"
              /\ cres' = "err_distill"
              /\ UNCHANGED cfacts
    /\ UNCHANGED <<bufVars, ghostBufVars, storeVars, obsVars>>
    /\ UNCHANGED <<csnap, csnapAt, cattempted, graph0>>
    /\ UNCHANGED otherVars

\* The upsert loop clearing the buffer when it gives up.
ConsolidateUpsertClearOnError ==
    /\ cpc = "upsert"
    /\ LET k == Len(cattempted) + 1
       IN  \E ok \in BOOLEAN :
             /\ cattempted' = Append(cattempted, [fact |-> cfacts[k], ok |-> ok])
             /\ IF ok
                THEN /\ triples' = UpsertTriple(triples, cfacts[k])
                     /\ cpc' = IF k = Len(cfacts) THEN "clear" ELSE "upsert"
                     /\ ccalls' = ccalls \cup {"UpsertTriple"}
                     /\ UNCHANGED <<cres, items, cleared>>
                ELSE /\ cpc' = "done"
                     /\ cres' = "err_upsert"
                     /\ ccalls' = ccalls \cup {"UpsertTriple", "Clear"}
                     /\ BufferClear
                     /\ UNCHANGED triples
    /\ UNCHANGED <<capacity, callLimit, ttl, now, nextCall, evicted, panicked, expired>>
    /\ UNCHANGED <<ghostBufVars, obsVars>>
    /\ UNCHANGED <<vssEnabled, logs, vssMemories, vssPayload>>
    /\ UNCHANGED <<csnap, csnapAt, cfacts, graph0, distilled>>
    /\ UNCHANGED otherVars

\* The upsert loop going on to the next triple after a failed upsert.
ConsolidateUpsertContinue ==
    /\ cpc = "upsert"
    /\ ccalls' = ccalls \cup {"UpsertTriple"}
    /\ LET k == Len(cattempted) + 1
       IN  \E ok \in BOOLEAN :
             /\ cattempted' = Append(cattempted, [fact |-> cfacts[k], ok |-> ok])
             /\ triples' = IF ok THEN UpsertTriple(triples, cfacts[k]) ELSE triples
             /\ IF k = Len(cfacts)
                THEN IF \A i \in 1..k : cattempted'[i].ok
                     THEN cpc' = "clear" /\ UNCHANGED cres
                     ELSE cpc' = "done" /\ cres' = "err_upsert"
                ELSE cpc' = "upsert" /\ UNCHANGED cres
    /\ UNCHANGED <<bufVars, ghostBufVars, obsVars>>
    /\ UNCHANGED <<vssEnabled, logs, vssMemories, vssPayload>>
    /\ UNCHANGED <<csnap, csnapAt, cfacts, graph0, distilled>>
    /\ UNCHANGED otherVars

\* for _, t := range triples {
\*     if _, err := m.graph.UpsertTriple(ctx, t); err != nil { return err } }
ConsolidateUpsert ==
    /\ cpc = "upsert"
    /\ ccalls' = ccalls \cup {"UpsertTriple"}
    /\ LET k == Len(cattempted) + 1
       IN  \E ok \in BOOLEAN :
             /\ cattempted' = Append(cattempted, [fact |-> cfacts[k], ok |-> ok])
             /\ IF ok
                THEN /\ triples' = UpsertTriple(triples, cfacts[k])
                     /\ cpc' = IF k = Len(cfacts) THEN "clear" ELSE "upsert"
                     /\ UNCHANGED cres
                ELSE /\ cpc' = "done"
                     /\ cres' = "err_upsert"
                     /\ UNCHANGED triples
    /\ UNCHANGED <<bufVars, ghostBufVars, obsVars>>
    /\ UNCHANGED <<vssEnabled, logs, vssMemories, vssPayload>>
    /\ UNCHANGED <<csnap, csnapAt, cfacts, graph0, distilled>>
    /\ UNCHANGED otherVars

\* m.buffer.Clear(); return nil
ConsolidateClear ==
    /\ cpc = "clear"
    /\ BufferClear
    /\ ccalls' = ccalls \cup {"Clear"}
    /\ cpc' = "done"
    /\ cres' = "ok"
    /\ UNCHANGED <<capacity, callLimit, ttl, now, nextCall, evicted, panicked, expired>>
    /\ UNCHANGED <<ghostBufVars, storeVars, obsVars>>
    /\ UNCHANGED <<csnap, csnapAt, cfacts, cattempted, graph0, distilled>>
    /\ UNCHANGED otherVars

\* Consolidate has returned; the loop logs an error and waits for the next tick.
ConsolidateReturn ==
    /\ cpc = "done"
    /\ cpc' = "idle"
    /\ csnap' = << >> /\ csnapAt' = 0 /\ cfacts' = << >> /\ cattempted' = << >>
    /\ cres' = "none" /\ ccalls' = {} /\ graph0' = << >>
    /\ UNCHANGED <<bufVars, ghostBufVars, storeVars, obsVars, distilled>>
    /\ UNCHANGED otherVars

\* The clock advances between any two steps.
Tick ==
    /\ Advance
    /\ UNCHANGED <<capacity, callLimit, ttl, items, nextCall, evicted, panicked, expired, cleared>>
    /\ UNCHANGED <<ghostBufVars, storeVars, obsVars, conVars>>
    /\ UNCHANGED otherVars

Engine(H) ==
    \/ \E h \in H, input \in ObserveInputs : ObserveInsertLog(h, input)
    \/ \E h \in H : ObserveAdd(h)
    \/ \E h \in H : ObserveEmbed(h)
    \/ \E h \in H : ObserveReturn(h)
    \/ ConsolidateSnapshot
    \/ ConsolidateDistill
    \/ ConsolidateUpsert
    \/ ConsolidateClear
    \/ ConsolidateReturn

NextBatch == Engine(Single)

NextConc == Engine(Observers)

Next ==
    \/ Engine(Single)
    \/ Tick

SpecBatch == InitBatch /\ [][NextBatch]_vars

SpecVec == InitVec /\ [][NextBatch]_vars

SpecConc == InitConc /\ [][NextConc]_vars

Spec == Init /\ [][Next]_vars

\* ---------------------------------------------------- SpecRecall: Recall
\* The observations that filled the database Recall reads.
PoolInput(i) ==
    IF i = 1 THEN InAlice
    ELSE [content |-> "note " \o ToString(i), source |-> "chat",
          metadata |-> NoMeta]

\* Table triples after the first n pool observations were consolidated.
RECURSIVE Stored(_)
Stored(n) ==
    IF n = 0 THEN << >>
    ELSE UpsertTriple(Stored(n - 1), DistillOne(PoolInput(n))[1])

\* NewMemoryEngine over an existing database file (CREATE TABLE IF NOT
\* EXISTS): the rows earlier runs left are there; the vector tables exist
\* only when the index is enabled.
InitRecall ==
    /\ InitEngine
    /\ callLimit = 0 /\ capacity = 1 /\ ttl = MaxTTL
    /\ vssEnabled \in BOOLEAN
    /\ \E n \in 0..MaxFacts : triples = Stored(n)
    /\ \E m \in 0..MaxLogs :
         /\ logs = {LogRow(i, PoolInput(i)) : i \in 1..m}
         /\ vssMemories = IF vssEnabled THEN 1..m ELSE {}
         /\ vssPayload = IF vssEnabled
                         THEN {[rowid |-> i, log_id |-> i] : i \in 1..m}
                         ELSE {}

Queries == {"Alice", "chat", ""}
TopKs == (0 - 1)..MaxTopK

\* Recall embedding the query whether or not the vector index is enabled.
RecallSearchFactsAlwaysVector(query, topK) ==
    /\ rpc = "idle"
    /\ rquery' = query /\ rtopK' = topK
    /\ rcalls' = {"SearchFacts"}
    /\ \E ok \in BOOLEAN :
         IF ~ok
         THEN /\ rpc' = "done" /\ rres' = "err_graph"
              /\ rfacts' = << >> /\ rout' = NoContext
         ELSE /\ rfacts' = SearchFacts(triples, query, topK)
              /\ rpc' = "vector" /\ UNCHANGED <<rres, rout>>
    /\ UNCHANGED <<baseVars, upsertVars, distVars, mutexVars, portVars, loopVars>>

\* GET /ask reaches engine.Recall(ctx, query, topK), whose first statements are
\* facts, err := m.graph.SearchFacts(ctx, query, topK)
\* if err != nil { return nil, err }
\* and, the index disabled, return &RecalledContext{logs (nil), facts}, nil
RecallSearchFacts(query, topK) ==
    /\ rpc = "idle"
    /\ rquery' = query /\ rtopK' = topK
    /\ rcalls' = {"SearchFacts"}
    /\ \E ok \in BOOLEAN :
         IF ~ok
         THEN /\ rpc' = "done" /\ rres' = "err_graph"
              /\ rfacts' = << >> /\ rout' = NoContext
         ELSE /\ rfacts' = SearchFacts(triples, query, topK)
              /\ IF vssEnabled
                 THEN rpc' = "vector" /\ UNCHANGED <<rres, rout>>
                 ELSE /\ rpc' = "done" /\ rres' = "ok"
                      /\ rout' = RecalledContext({}, rfacts')
    /\ UNCHANGED <<baseVars, upsertVars, distVars, mutexVars, portVars, loopVars>>

\* Recall keeping the embedding of its query in the vector index.
RecallVectorIndexing ==
    /\ rpc = "vector"
    /\ rpc' = "done"
    /\ \E emb \in EmbedResults, searchOk \in BOOLEAN, fetchOk \in BOOLEAN,
          hits \in SearchResults(vssPayload, rtopK) :
         LET ids == {r.log_id : r \in hits}
         IN  IF ~emb.ok
             THEN /\ rcalls' = rcalls \cup {"EmbedText"}
                  /\ rres' = "err_embed" /\ rout' = NoContext
                  /\ UNCHANGED <<vssMemories, vssPayload>>
             ELSE IF SearchRejected(emb.vec) \/ ~searchOk
             THEN /\ rcalls' = rcalls \cup {"EmbedText", "Search"}
                  /\ rres' = "err_search" /\ rout' = NoContext
                  /\ UNCHANGED <<vssMemories, vssPayload>>
             ELSE IF ids # {} /\ ~fetchOk
             THEN /\ rcalls' = rcalls \cup {"EmbedText", "Search", "FetchLogs"}
                  /\ rres' = "err_fetch" /\ rout' = NoContext
                  /\ UNCHANGED <<vssMemories, vssPayload>>
             ELSE /\ rcalls' = rcalls \cup {"EmbedText", "Search", "FetchLogs"}
                  /\ rres' = "ok"
                  /\ rout' = RecalledContext(FetchLogs(logs, ids), rfacts)
                  /\ vssMemories' = vssMemories \cup {NextRowId}
                  /\ vssPayload' = vssPayload \cup
                       {[rowid |-> NextRowId, log_id |-> 0]}
    /\ UNCHANGED <<rquery, rtopK, rfacts>>
    /\ UNCHANGED <<bufVars, ghostBufVars, obsVars, conVars>>
    /\ UNCHANGED <<vssEnabled, logs, triples>>
    /\ UNCHANGED <<upsertVars, distVars, mutexVars, portVars, loopVars>>

\* Recall falling back to the facts alone when the vector side fails.
RecallVectorPartial ==
    /\ rpc = "vector"
    /\ rpc' = "done"
    /\ \E emb \in EmbedResults, searchOk \in BOOLEAN, fetchOk \in BOOLEAN,
          hits \in SearchResults(vssPayload, rtopK) :
         LET ids == {r.log_id : r \in hits}
         IN  IF ~emb.ok
             THEN /\ rcalls' = rcalls \cup {"EmbedText"}
                  /\ rres' = "err_embed" /\ rout' = RecalledContext({}, rfacts)
             ELSE IF SearchRejected(emb.vec) \/ ~searchOk
             THEN /\ rcalls' = rcalls \cup {"EmbedText", "Search"}
                  /\ rres' = "err_search" /\ rout' = RecalledContext({}, rfacts)
             ELSE IF ids # {} /\ ~fetchOk
             THEN /\ rcalls' = rcalls \cup {"EmbedText", "Search", "FetchLogs"}
                  /\ rres' = "err_fetch" /\ rout' = RecalledContext({}, rfacts)
             ELSE /\ rcalls' = rcalls \cup {"EmbedText", "Search", "FetchLogs"}
                  /\ rres' = "ok"
                  /\ rout' = RecalledContext(FetchLogs(logs, ids), rfacts)
    /\ UNCHANGED <<rquery, rtopK, rfacts>>
    /\ UNCHANGED <<baseVars, upsertVars, distVars, mutexVars, portVars, loopVars>>

\* if m.vec.Enabled() && m.embedder != nil {
\*     emb, err := EmbedText(query);  ids, err := m.vec.Search(emb, topK)
\*     logs, err = m.db.FetchLogs(ids) }     each: if err != nil { return nil, err }
\* return &RecalledContext{logs, facts}, nil
RecallVector ==
    /\ rpc = "vector"
    /\ rpc' = "done"
    /\ \E emb \in EmbedResults, searchOk \in BOOLEAN, fetchOk \in BOOLEAN,
          hits \in SearchResults(vssPayload, rtopK) :
         LET ids == {r.log_id : r \in hits}
         IN  IF ~emb.ok
             THEN /\ rcalls' = rcalls \cup {"EmbedText"}
                  /\ rres' = "err_embed" /\ rout' = NoContext
             ELSE IF SearchRejected(emb.vec) \/ ~searchOk
             THEN /\ rcalls' = rcalls \cup {"EmbedText", "Search"}
                  /\ rres' = "err_search" /\ rout' = NoContext
             ELSE IF ids # {} /\ ~fetchOk
             THEN /\ rcalls' = rcalls \cup {"EmbedText", "Search", "FetchLogs"}
                  /\ rres' = "err_fetch" /\ rout' = NoContext
             ELSE /\ rcalls' = rcalls \cup {"EmbedText", "Search", "FetchLogs"}
                  /\ rres' = "ok"
                  /\ rout' = RecalledContext(FetchLogs(logs, ids), rfacts)
    /\ UNCHANGED <<rquery, rtopK, rfacts>>
    /\ UNCHANGED <<baseVars, upsertVars, distVars, mutexVars, portVars, loopVars>>

\* Recall has returned; the handler writes the answer.
RecallReturn ==
    /\ rpc = "done"
    /\ rpc' = "idle" /\ rquery' = "" /\ rtopK' = 0 /\ rfacts' = << >>
    /\ rout' = NoContext /\ rres' = "none" /\ rcalls' = {}
    /\ UNCHANGED <<baseVars, upsertVars, distVars, mutexVars, portVars, loopVars>>

NextRecall ==
    \/ \E query \in Queries, topK \in TopKs : RecallSearchFacts(query, topK)
    \/ RecallVector
    \/ RecallReturn

SpecRecall == InitRecall /\ [][NextRecall]_vars

\* ------------------------------------------- SpecGraph: graph.Store upserts
\* The triples a Distiller may hand to UpsertTriple (Options.Distiller is
\* pluggable: any confidence may come with any triple).
GraphFacts ==
    {[subject |-> sp[1], predicate |-> sp[2], object |-> "vectors",
      confidence |-> cf] :
        sp \in {<<"Alice", "likes">>, <<"Alice", "knows">>, <<"Bob", "likes">>},
        cf \in {"0.9", "0.4"}}

InitGraph ==
    /\ InitCommon
    /\ callLimit = 0 /\ capacity = 1 /\ ttl = MaxTTL /\ vssEnabled = FALSE

\* m.graph.UpsertTriple(ctx, t)
GraphUpsertTriple(t) ==
    /\ Len(written) < MaxUpserts
    /\ \E ok \in BOOLEAN :
         IF ok
         THEN /\ triples' = UpsertTriple(triples, t)
              /\ written' = Append(written, t)
         ELSE UNCHANGED <<triples, written>>
    /\ UNCHANGED <<vssEnabled, logs, vssMemories, vssPayload>>
    /\ UNCHANGED <<bufVars, ghostBufVars, obsVars, conVars>>
    /\ UNCHANGED <<recVars, distVars, mutexVars, portVars, loopVars>>

NextGraph == \E t \in GraphFacts : GraphUpsertTriple(t)

SpecGraph == InitGraph /\ [][NextGraph]_vars

\* ---------------------------------------- SpecDistill: the distiller alone
\* The batches of up to n inputs.
RECURSIVE Batches(_)
Batches(n) ==
    IF n = 0 THEN {<< >>}
    ELSE Batches(n - 1) \cup
         {Append(b, in) : b \in {c \in Batches(n - 1) : Len(c) = n - 1},
                          in \in DistillInputs}

InitDistill ==
    /\ InitEngine /\ EmptyDatabase
    /\ callLimit = 0 /\ capacity = 1 /\ ttl = MaxTTL /\ vssEnabled = FALSE

\* A caller prepares the batch: m.buffer.Snapshot()'s outputs.
DistillPrepare(batch) ==
    /\ dpc = "idle"
    /\ dpc' = "ready"
    /\ dbatch' = batch
    /\ UNCHANGED <<dout, derr>>
    /\ UNCHANGED <<baseVars, recVars, upsertVars, mutexVars, portVars, loopVars>>

\* triples, err := distiller.Distill(ctx, inputs)
DistillCall ==
    /\ dpc = "ready"
    /\ dpc' = "done"
    /\ dout' = Distill(dbatch)
    /\ derr' = "nil"
    /\ UNCHANGED dbatch
    /\ UNCHANGED <<baseVars, recVars, upsertVars, mutexVars, portVars, loopVars>>

NextDistill ==
    \/ \E batch \in Batches(MaxLen) : DistillPrepare(batch)
    \/ DistillCall

SpecDistill == InitDistill /\ [][NextDistill]_vars

\* --------------------------------- SpecMutex: the buffer's critical sections
\* Add, Snapshot and Clear statement by statement, called by two goroutines;
\* each begins with b.mu.Lock() and ends with the deferred b.mu.Unlock().
BufferOps == {"Add", "Snapshot", "Clear"}

InitMutex == InitCommon /\ Configured(MaxCalls, 1..MaxTTL, {FALSE})

\* A Lock that does not wait for the holder.
MutexLockNoWait(t, op) ==
    /\ tpc[t] = "idle"
    /\ op = "Add" => nextCall <= callLimit
    /\ mu' = t
    /\ top' = [top EXCEPT ![t] = op]
    /\ tpc' = [tpc EXCEPT ![t] = "locked"]
    /\ UNCHANGED <<tloc, serial>>
    /\ UNCHANGED <<baseVars, recVars, upsertVars, distVars, portVars, loopVars>>

\* b.mu.Lock(): blocks until the mutex is free.
MutexLock(t, op) ==
    /\ tpc[t] = "idle"
    /\ op = "Add" => nextCall <= callLimit
    /\ mu = "free"
    /\ mu' = t
    /\ top' = [top EXCEPT ![t] = op]
    /\ tpc' = [tpc EXCEPT ![t] = "locked"]
    /\ UNCHANGED <<tloc, serial>>
    /\ UNCHANGED <<baseVars, recVars, upsertVars, distVars, portVars, loopVars>>

\* Add: b.items = append(b.items, bufferItem{at: time.Now(), input: input})
MutexAppend(t, input) ==
    /\ tpc[t] = "locked" /\ top[t] = "Add"
    /\ items' = Append(items, [at |-> now, input |-> input, cid |-> nextCall])
    /\ nextCall' = nextCall + 1
    /\ serial' = Add(serial, input, now, capacity, nextCall)
    /\ tpc' = [tpc EXCEPT ![t] = "slice"]
    /\ UNCHANGED <<capacity, callLimit, ttl, now, evicted, panicked, expired, cleared>>
    /\ UNCHANGED <<mu, top, tloc>>
    /\ UNCHANGED <<ghostBufVars, storeVars, obsVars, conVars>>
    /\ UNCHANGED <<recVars, upsertVars, distVars, portVars, loopVars>>

\* Add: if len(b.items) > b.capacity { b.items = b.items[len-capacity:] }
MutexSlice(t) ==
    /\ tpc[t] = "slice"
    /\ items' = IF Len(items) > capacity
                THEN SubSeq(items, Len(items) - capacity + 1, Len(items))
                ELSE items
    /\ evicted' = evicted \cup (Cids(items) \ Cids(items'))
    /\ tpc' = [tpc EXCEPT ![t] = "unlock"]
    /\ UNCHANGED <<capacity, callLimit, ttl, now, nextCall, panicked, expired, cleared>>
    /\ UNCHANGED <<mu, top, tloc, serial>>
    /\ UNCHANGED <<ghostBufVars, storeVars, obsVars, conVars>>
    /\ UNCHANGED <<recVars, upsertVars, distVars, portVars, loopVars>>

\* Snapshot: cutoff := time.Now().Add(-b.ttl); the loop filling filtered
MutexFilter(t) ==
    /\ tpc[t] = "locked" /\ top[t] = "Snapshot"
    /\ tloc' = [tloc EXCEPT ![t] = Filter(items, now, ttl)]
    /\ serial' = Filter(serial, now, ttl)
    /\ tpc' = [tpc EXCEPT ![t] = "store"]
    /\ UNCHANGED <<mu, top>>
    /\ UNCHANGED <<baseVars, recVars, upsertVars, distVars, portVars, loopVars>>

\* Snapshot: b.items = filtered; the outputs are built from filtered
MutexStore(t) ==
    /\ tpc[t] = "store"
    /\ items' = tloc[t]
    /\ expired' = expired \cup (Cids(items) \ Cids(items'))
    /\ tpc' = [tpc EXCEPT ![t] = "unlock"]
    /\ UNCHANGED <<capacity, callLimit, ttl, now, nextCall, evicted, panicked, cleared>>
    /\ UNCHANGED <<mu, top, tloc, serial>>
    /\ UNCHANGED <<ghostBufVars, storeVars, obsVars, conVars>>
    /\ UNCHANGED <<recVars, upsertVars, distVars, portVars, loopVars>>

\* Clear: b.items = nil
MutexNil(t) ==
    /\ tpc[t] = "locked" /\ top[t] = "Clear"
    /\ items' = Cleared(items)
    /\ cleared' = cleared \cup Cids(items)
    /\ serial' = Cleared(serial)
    /\ tpc' = [tpc EXCEPT ![t] = "unlock"]
    /\ UNCHANGED <<capacity, callLimit, ttl, now, nextCall, evicted, panicked, expired>>
    /\ UNCHANGED <<mu, top, tloc>>
    /\ UNCHANGED <<ghostBufVars, storeVars, obsVars, conVars>>
    /\ UNCHANGED <<recVars, upsertVars, distVars, portVars, loopVars>>

\* defer b.mu.Unlock()
MutexUnlock(t) ==
    /\ tpc[t] = "unlock"
    /\ mu' = "free"
    /\ tpc' = [tpc EXCEPT ![t] = "idle"]
    /\ top' = [top EXCEPT ![t] = "none"]
    /\ tloc' = [tloc EXCEPT ![t] = << >>]
    /\ UNCHANGED serial
    /\ UNCHANGED <<baseVars, recVars, upsertVars, distVars, portVars, loopVars>>

NextMutex ==
    \/ \E t \in Goroutines, op \in BufferOps : MutexLock(t, op)
    \/ \E t \in Goroutines, input \in BufInputs : MutexAppend(t, input)
    \/ \E t \in Goroutines : MutexSlice(t)
    \/ \E t \in Goroutines : MutexFilter(t)
    \/ \E t \in Goroutines : MutexStore(t)
    \/ \E t \in Goroutines : MutexNil(t)
    \/ \E t \in Goroutines : MutexUnlock(t)
    \/ Tick

SpecMutex == InitMutex /\ [][NextMutex]_vars

\* ----------------------------------- SpecCfg: the buffer as main configures it
\* getenvInt's fallback for PAIM_BUFFER_SIZE.
EnvDefaultBufferSize == 128

\* The size NewMemoryEngine puts in place of 0.
EngineDefaultBufferSize == 128

\* Values of the environment variable PAIM_BUFFER_SIZE ("" is unset).
EnvBufferSizes == {"", "x", "0", "1", "2", "-1"}

Digits == <<"0", "1", "2", "3", "4", "5", "6", "7", "8", "9">>

IsDigit(c) == \E d \in 1..10 : Digits[d] = c

DigitValue(c) == (CHOOSE d \in 1..10 : Digits[d] = c) - 1

\* The value of a run of decimal digits.
RECURSIVE DecimalValue(_)
DecimalValue(s) ==
    IF Len(s) = 0 THEN 0
    ELSE 10 * DecimalValue(SubSeq(s, 1, Len(s) - 1))
         + DigitValue(SubSeq(s, Len(s), Len(s)))

\* strconv.Atoi: an optional sign, then at least one digit and only digits.
Atoi(s) ==
    LET signed == Len(s) > 0 /\ SubSeq(s, 1, 1) \in {"-", "+"}
        body   == IF signed THEN SubSeq(s, 2, Len(s)) ELSE s
        ok     == /\ Len(body) > 0
                  /\ \A i \in 1..Len(body) : IsDigit(SubSeq(body, i, i))
    IN  [ok |-> ok,
         n  |-> IF ~ok THEN 0
                ELSE IF signed /\ SubSeq(s, 1, 1) = "-"
                     THEN 0 - DecimalValue(body)
                     ELSE DecimalValue(body)]

\* getenvInt(key, def): def when the variable is unset or does not parse.
getenvInt(v, def) ==
    IF v = "" THEN def
    ELSE IF ~Atoi(v).ok THEN def
    ELSE Atoi(v).n

\* The capacity NewMemoryEngine hands to NewSensoryBuffer.
BufferSize(v) ==
    LET size == getenvInt(v, EnvDefaultBufferSize)
    IN  IF size = 0 THEN EngineDefaultBufferSize ELSE size

InitCfg ==
    /\ InitCommon
    /\ callLimit = MaxBatch
    /\ \E v \in EnvBufferSizes : capacity = BufferSize(v)
    /\ ttl \in 1..MaxTTL
    /\ vssEnabled = FALSE

SpecCfg == InitCfg /\ [][NextBuf]_vars

\* ------------------------------- SpecDegraded: the vector port called directly
\* Observe with the vector index enabled or not, and direct callers of
\* vector.Store.UpsertEmbedding and vector.Store.Search.
InitDegraded == InitCommon /\ Configured(MaxCalls, {MaxTTL}, BOOLEAN)

\* The log id a direct caller passes.
PortLogId == 0

\* s.UpsertEmbedding(ctx, logID, embedding)
PortUpsertEmbedding(emb) ==
    /\ pcall' = "UpsertEmbedding"
    /\ IF ~vssEnabled
       THEN /\ pres' = [pres EXCEPT !["UpsertEmbedding"] =
                           [err |-> "nil", ids |-> {}, wrote |-> FALSE]]
            /\ UNCHANGED <<vssMemories, vssPayload>>
       ELSE \E txOk \in BOOLEAN :
              IF EmbeddingRejected(emb) \/ ~txOk
              THEN /\ pres' = [pres EXCEPT !["UpsertEmbedding"] =
                                  [err |-> "error", ids |-> {}, wrote |-> FALSE]]
                   /\ UNCHANGED <<vssMemories, vssPayload>>
              ELSE /\ pres' = [pres EXCEPT !["UpsertEmbedding"] =
                                  [err |-> "nil", ids |-> {}, wrote |-> TRUE]]
                   /\ vssMemories' = vssMemories \cup {NextRowId}
                   /\ vssPayload' = vssPayload \cup
                        {[rowid |-> NextRowId, log_id |-> PortLogId]}
    /\ Cardinality(vssMemories') <= callLimit
    /\ UNCHANGED <<vssEnabled, logs, triples>>
    /\ UNCHANGED <<bufVars, ghostBufVars, obsVars, conVars>>
    /\ UNCHANGED <<recVars, upsertVars, distVars, mutexVars, txVars, loopVars>>

\* s.Search(ctx, embedding, topK)
PortSearch(emb, topK) ==
    /\ pcall' = "Search"
    /\ IF ~vssEnabled
       THEN pres' = [pres EXCEPT !["Search"] =
                        [err |-> "nil", ids |-> {}, wrote |-> FALSE]]
       ELSE \E searchOk \in BOOLEAN, hits \in SearchResults(vssPayload, topK) :
              IF SearchRejected(emb) \/ ~searchOk
              THEN pres' = [pres EXCEPT !["Search"] =
                               [err |-> "error", ids |-> {}, wrote |-> FALSE]]
              ELSE pres' = [pres EXCEPT !["Search"] =
                               [err |-> "nil", ids |-> {r.log_id : r \in hits},
                                wrote |-> FALSE]]
    /\ UNCHANGED <<baseVars, recVars, upsertVars, distVars, mutexVars, txVars, loopVars>>

NextDegraded ==
    \/ \E input \in ObserveInputs : ObserveInsertLog("h1", input)
    \/ ObserveAdd("h1")
    \/ ObserveEmbed("h1")
    \/ ObserveReturn("h1")
    \/ \E n \in {0, VectorDim} : PortUpsertEmbedding(Vec(n))
    \/ \E n \in {0, VectorDim} : PortSearch(Vec(n), 1)

SpecDegraded == InitDegraded /\ [][NextDegraded]_vars

\* ---------------------------- SpecTx: UpsertEmbedding statement by statement
\* The database has one connection (db.SetMaxOpenConns(1)) and the open
\* transaction holds it: vssMemories and vssPayload are the committed tables,
\* which is all any other caller can read; txMemories and txPayload are what
\* the transaction has written and not yet committed.
InitTx ==
    /\ InitCommon
    /\ callLimit = MaxBatch /\ capacity = MaxCapacity /\ ttl = MaxTTL
    /\ vssEnabled \in BOOLEAN

\* defer tx.Rollback(), on a return before Commit.
Rollback(err) ==
    /\ txMemories' = {} /\ txPayload' = {}
    /\ upc' = "done" /\ ures' = err
    /\ UNCHANGED <<vssMemories, vssPayload>>

\* The frame of a step of UpsertEmbedding.
UpsertFrame ==
    /\ UNCHANGED <<vssEnabled, logs, triples>>
    /\ UNCHANGED <<bufVars, ghostBufVars, obsVars, conVars>>
    /\ UNCHANGED <<recVars, upsertVars, distVars, mutexVars, pcall, pres, loopVars>>

\* if !s.enabled { return nil }; the checks of the vector; s.db.BeginTx
UpsertBegin(logId, emb) ==
    /\ upc = "idle"
    /\ Cardinality(vssMemories) < callLimit
    /\ ulog' = logId
    /\ IF ~vssEnabled
       THEN upc' = "done" /\ ures' = "nil"
       ELSE IF Len(emb) = 0
       THEN upc' = "done" /\ ures' = "err_empty"
       ELSE IF VectorDim > 0 /\ Len(emb) # VectorDim
       THEN upc' = "done" /\ ures' = "err_dim"
       ELSE \E ok \in BOOLEAN :
              IF ok THEN upc' = "index" /\ UNCHANGED ures
              ELSE upc' = "done" /\ ures' = "err_begin"
    /\ UNCHANGED <<urow, txMemories, txPayload, vssMemories, vssPayload>>
    /\ UpsertFrame

\* The index insert made outside the transaction.
UpsertInsertIndexAutocommit ==
    /\ upc = "index"
    /\ \E ok \in BOOLEAN :
         IF ok
         THEN /\ txMemories' = {NextRowId}
              /\ vssMemories' = vssMemories \cup {NextRowId}
              /\ upc' = "rowid"
              /\ UNCHANGED <<ures, txPayload, vssPayload>>
         ELSE Rollback("err_index")
    /\ UNCHANGED <<ulog, urow>>
    /\ UpsertFrame

\* res, err := tx.ExecContext(ctx, `INSERT INTO vss_memories(...)`, vec)
UpsertInsertIndex ==
    /\ upc = "index"
    /\ \E ok \in BOOLEAN :
         IF ok
         THEN /\ txMemories' = {NextRowId}
              /\ upc' = "rowid"
              /\ UNCHANGED <<ures, txPayload, vssMemories, vssPayload>>
         ELSE Rollback("err_index")
    /\ UNCHANGED <<ulog, urow>>
    /\ UpsertFrame

\* rowID, err := res.LastInsertId()
UpsertLastInsertId ==
    /\ upc = "rowid"
    /\ \E ok \in BOOLEAN :
         IF ok
         THEN /\ urow' = CHOOSE r \in txMemories : TRUE
              /\ upc' = "payload"
              /\ UNCHANGED <<ures, txMemories, txPayload, vssMemories, vssPayload>>
         ELSE Rollback("err_rowid") /\ UNCHANGED urow
    /\ UNCHANGED ulog
    /\ UpsertFrame

\* tx.ExecContext(ctx, `INSERT INTO vss_payload(rowid, log_id) ...`, rowID, logID)
\* rowid is the primary key of vss_payload.
UpsertInsertPayload ==
    /\ upc = "payload"
    /\ \E ok \in BOOLEAN :
         IF ok /\ urow \notin {r.rowid : r \in vssPayload}
         THEN /\ txPayload' = {[rowid |-> urow, log_id |-> ulog]}
              /\ upc' = "commit"
              /\ UNCHANGED <<ures, txMemories, vssMemories, vssPayload>>
         ELSE Rollback("err_payload")
    /\ UNCHANGED <<ulog, urow>>
    /\ UpsertFrame

\* return tx.Commit()
UpsertCommit ==
    /\ upc = "commit"
    /\ \E ok \in BOOLEAN :
         IF ok
         THEN /\ vssMemories' = vssMemories \cup txMemories
              /\ vssPayload' = vssPayload \cup txPayload
              /\ txMemories' = {} /\ txPayload' = {}
              /\ upc' = "done" /\ ures' = "nil"
         ELSE Rollback("err_commit")
    /\ UNCHANGED <<ulog, urow>>
    /\ UpsertFrame

\* The caller has its answer.
UpsertReturn ==
    /\ upc = "done"
    /\ upc' = "idle" /\ ulog' = 0 /\ urow' = 0 /\ ures' = "none"
    /\ UNCHANGED <<txMemories, txPayload, vssMemories, vssPayload>>
    /\ UpsertFrame

NextTx ==
    \/ \E logId \in 1..MaxBatch, n \in {0, VectorDim, VectorDim + 1} :
         UpsertBegin(logId, Vec(n))
    \/ UpsertInsertIndex
    \/ UpsertLastInsertId
    \/ UpsertInsertPayload
    \/ UpsertCommit
    \/ UpsertReturn

SpecTx == InitTx /\ [][NextTx]_vars

\* --------------------------------------- SpecLoop: startConsolidationLoop
\* main starts the loop once (go startConsolidationLoop(...)); handlers call
\* Observe next to it.
InitLoop == InitCommon /\ Configured(MaxCalls, {MaxTTL}, {FALSE})

\* What a loop step leaves alone besides the engine.
LoopFrame == UNCHANGED <<recVars, upsertVars, distVars, mutexVars, portVars>>

\* The ticker sends on ticker.C; a tick that finds the channel full is dropped.
TickerFire ==
    /\ lpc # "stopped"
    /\ tickC = 0
    /\ tickC' = 1
    /\ UNCHANGED <<lpc, cancelled, active, llog>>
    /\ UNCHANGED baseVars /\ LoopFrame

\* The context handed to the loop is cancelled.
LoopCancel ==
    /\ ~cancelled
    /\ cancelled' = TRUE
    /\ UNCHANGED <<lpc, tickC, active, llog>>
    /\ UNCHANGED baseVars /\ LoopFrame

\* The loop starting each Consolidate in a goroutine of its own.
LoopReceiveSpawning ==
    /\ lpc = "select"
    /\ tickC = 1
    /\ tickC' = 0
    /\ active' = active + 1
    /\ UNCHANGED <<lpc, cancelled, llog>>
    /\ UNCHANGED baseVars /\ LoopFrame

\* case <-ticker.C: the loop goes into engine.Consolidate(ctx)
LoopReceive ==
    /\ lpc = "select"
    /\ tickC = 1
    /\ tickC' = 0
    /\ lpc' = "call"
    /\ active' = active + 1
    /\ UNCHANGED <<cancelled, llog>>
    /\ UNCHANGED baseVars /\ LoopFrame

\* case <-ctx.Done(): return (defer ticker.Stop())
LoopStop ==
    /\ lpc = "select"
    /\ cancelled
    /\ lpc' = "stopped"
    /\ UNCHANGED <<tickC, cancelled, active, llog>>
    /\ UNCHANGED baseVars /\ LoopFrame

\* The first statements of the Consolidate the loop has called.
LoopConsolidateSnapshot == lpc = "call" /\ ConsolidateSnapshot

\* The loop returning when Consolidate fails.
LoopConsolidateReturnStopOnError ==
    /\ lpc = "call"
    /\ cpc = "done"
    /\ cpc' = "idle"
    /\ csnap' = << >> /\ csnapAt' = 0 /\ cfacts' = << >> /\ cattempted' = << >>
    /\ cres' = "none" /\ ccalls' = {} /\ graph0' = << >>
    /\ active' = active - 1
    /\ llog' = IF cres = "ok" THEN "nil" ELSE "error"
    /\ lpc' = IF cres = "ok" THEN "select" ELSE "stopped"
    /\ UNCHANGED <<tickC, cancelled>>
    /\ UNCHANGED <<bufVars, ghostBufVars, storeVars, obsVars, distilled>>
    /\ LoopFrame

\* if err := engine.Consolidate(ctx); err != nil { logger.Error(...) }
\* and the for loop comes back to the select.
LoopConsolidateReturn ==
    /\ lpc = "call"
    /\ cpc = "done"
    /\ cpc' = "idle"
    /\ csnap' = << >> /\ csnapAt' = 0 /\ cfacts' = << >> /\ cattempted' = << >>
    /\ cres' = "none" /\ ccalls' = {} /\ graph0' = << >>
    /\ active' = active - 1
    /\ llog' = IF cres = "ok" THEN "nil" ELSE "error"
    /\ lpc' = "select"
    /\ UNCHANGED <<tickC, cancelled>>
    /\ UNCHANGED <<bufVars, ghostBufVars, storeVars, obsVars, distilled>>
    /\ LoopFrame

NextLoop ==
    \/ \E input \in ObserveInputs : ObserveInsertLog("h1", input)
    \/ ObserveAdd("h1")
    \/ ObserveEmbed("h1")
    \/ ObserveReturn("h1")
    \/ TickerFire
    \/ LoopCancel
    \/ LoopReceive
    \/ LoopStop
    \/ LoopConsolidateSnapshot
    \/ ConsolidateDistill
    \/ ConsolidateUpsert
    \/ ConsolidateClear
    \/ LoopConsolidateReturn

SpecLoop == InitLoop /\ [][NextLoop]_vars

\* The ticker keeps firing and the loop goroutine keeps being scheduled; the
\* calls Consolidate makes return.
LoopFairness ==
    /\ WF_vars(TickerFire)
    /\ WF_vars(LoopReceive)
    /\ WF_vars(LoopStop)
    /\ WF_vars(LoopConsolidateSnapshot)
    /\ WF_vars(ConsolidateDistill)
    /\ WF_vars(ConsolidateUpsert)
    /\ WF_vars(ConsolidateClear)
    /\ WF_vars(LoopConsolidateReturn)

SpecLoopLive == SpecLoop /\ LoopFairness

\* ------------------------------ SpecRetry: Consolidate retried on one buffer
\* Observations first, then Consolidate as often as the loop calls it: once
\* a snapshot has reached Distill no handler gets to run, so nothing is added
\* between one Consolidate and the next, and the clock stands still.
InitRetry == InitCommon /\ Configured(MaxBatch, {MaxTTL}, {FALSE})

\* No Consolidate has had a snapshot to distill yet.
BeforeConsolidation == cpc = "idle" /\ distilled = {}

RetryObserveInsertLog(input) == BeforeConsolidation /\ ObserveInsertLog("h1", input)

RetryObserveAdd == BeforeConsolidation /\ ObserveAdd("h1")

RetryObserveEmbed == BeforeConsolidation /\ ObserveEmbed("h1")

RetryObserveReturn == BeforeConsolidation /\ ObserveReturn("h1")

NextRetry ==
    \/ \E input \in ObserveInputs : RetryObserveInsertLog(input)
    \/ RetryObserveAdd
    \/ RetryObserveEmbed
    \/ RetryObserveReturn
    \/ ConsolidateSnapshot
    \/ ConsolidateDistill
    \/ ConsolidateUpsert
    \/ ConsolidateClear
    \/ ConsolidateReturn

SpecRetry == InitRetry /\ [][NextRetry]_vars

\* -------------------- SpecFull: Observe, Recall and Consolidate interleaved
\* A handler inside Observe, one inside Recall and the consolidation task,
\* the vector index enabled, at one instant of the clock; the buffer large
\* enough to hold every observation.
InitFull ==
    /\ InitCommon
    /\ callLimit = MaxCalls /\ capacity = MaxCapacity /\ ttl = MaxTTL
    /\ vssEnabled = TRUE

\* The requests GET /ask?q=...&k=... explored.
AskQueries == {"Alice"}
AskTopKs == {1}

NextFull ==
    \/ Engine(Single)
    \/ \E query \in AskQueries, topK \in AskTopKs : RecallSearchFacts(query, topK)
    \/ RecallVector
    \/ RecallReturn

SpecFull == InitFull /\ [][NextFull]_vars

\* ================================================================== claims
ConsolidateErrors == {"err_distill", "err_upsert"}
ObserveStep3Errors == {"err_embed", "err_upsert"}

\* The step on which Consolidate returns.
ConsolidateReturns == cpc # "done" /\ cpc' = "done"

\* After the step, every observation of the snapshot is in the buffer or has
\* been evicted by the capacity slice of an Add since the snapshot.
SnapshotRetained ==
    \A c \in Cids(csnap') : c \in Cids(items') \/ c \in evicted'

\* C1: no buffered observation is lost: whatever leaves the buffer other than
\* by capacity eviction or TTL expiry (that is, by Clear) was in a snapshot
\* handed to Distill before it left, also when the Add landed between a
\* Consolidate's Snapshot and its Clear.
C1_NoObservationLost == cleared \subseteq distilled

\* C2 as stated: a Consolidate that returns an error has not cleared the
\* buffer and its snapshot's observations are all still in the buffer when it
\* returns; one that returns success has upserted every distilled fact.
C2_AllOrRetain ==
    [][ConsolidateReturns =>
          \/ /\ cres' = "ok"
             /\ Len(cattempted') = Len(cfacts')
             /\ \A i \in 1..Len(cfacts') :
                    /\ cattempted'[i] = [fact |-> cfacts'[i], ok |-> TRUE]
                    /\ HasTriple(triples', cfacts'[i])
          \/ /\ cres' \in ConsolidateErrors
             /\ "Clear" \notin ccalls'
             /\ Cids(csnap') \subseteq Cids(items')]_vars

\* C2 amended: a Consolidate that returns success has upserted every fact
\* distilled from its snapshot; one that returns an error has not cleared the
\* buffer, and each observation of its snapshot is still in the buffer unless
\* an Add running concurrently has evicted it by capacity.
C2_AllOrRetainUnlessEvicted ==
    [][ConsolidateReturns =>
          \/ /\ cres' = "ok"
             /\ Len(cattempted') = Len(cfacts')
             /\ \A i \in 1..Len(cfacts') :
                    /\ cattempted'[i] = [fact |-> cfacts'[i], ok |-> TRUE]
                    /\ HasTriple(triples', cfacts'[i])
          \/ /\ cres' \in ConsolidateErrors
             /\ "Clear" \notin ccalls'
             /\ SnapshotRetained]_vars

\* A failed Consolidate has returned and its snapshot is still buffered.
C2_Witness ==
    /\ cpc = "done" /\ cres \in ConsolidateErrors
    /\ csnap # << >>
    /\ Cids(csnap) \subseteq Cids(items)

\* The second UpsertTriple of a batch of three has just failed.
SecondOfThreeFails ==
    /\ cpc = "upsert"
    /\ Len(cfacts) = 3
    /\ Len(cattempted') = 2
    /\ ~cattempted'[2].ok

NoneExpired == \A i \in 1..Len(hist) : now < hist[i].at + ttl

\* The last n elements of a sequence.
LastN(seq, n) == [i \in 1..n |-> seq[Len(seq) - n + i]]

\* C6: after more than C Adds to a buffer of capacity C, none expired, the
\* buffer holds exactly C entries and Snapshot returns exactly the C most
\* recently added observations in insertion order.
C6_MostRecent ==
    (Len(hist) > capacity /\ NoneExpired) =>
        /\ Len(items) = capacity
        /\ items = LastN(hist, capacity)
        /\ Outputs(Filter(items, now, ttl)) =
              [i \in 1..capacity |-> hist[Len(hist) - capacity + i].input]

\* Scenario A: capacity 2, three Adds, Snapshot returns the 2nd and the 3rd.
C6_Witness ==
    /\ capacity = 2 /\ Len(hist) = 3 /\ NoneExpired
    /\ lastOp = "Snapshot"
    /\ lastOut = <<hist[2].input, hist[3].input>>
    /\ hist[2].input # hist[3].input

\* C7: a Snapshot at time n returns the buffered entry added at time t exactly
\* when n < t + T and removes the others from the buffer, so what Consolidate
\* hands to Distill holds no observation whose age at the snapshot was T or
\* more.
C7_Ttl ==
    [][/\ (cpc = "idle" /\ cpc' # "idle") =>
             /\ \A i \in 1..Len(items) :
                   (items[i].cid \in Cids(csnap')) <=> (now < items[i].at + ttl)
             /\ items' = csnap'
             /\ \A j \in 1..Len(items') : now < items'[j].at + ttl
             /\ csnapAt' = now
       /\ (cpc = "distill" /\ cpc' # "distill") =>
             /\ "Distill" \in ccalls'
             /\ Cids(csnap) \subseteq distilled'
             /\ \A i \in 1..Len(csnap) : csnapAt - csnap[i].at < ttl]_vars

\* A snapshot that dropped an expired entry and kept a fresh one is being
\* distilled.
C7_Witness ==
    /\ cpc = "upsert"
    /\ expired # {}
    /\ csnap # << >>
    /\ \A i \in 1..Len(csnap) : csnap[i].at > 0

\* C8: a Consolidate whose snapshot is empty (no entries, or only expired
\* ones) calls neither Distill nor UpsertTriple, leaves the graph store as it
\* was and returns success.
C8_EmptyIsNoOp ==
    (cpc = "done" /\ csnap = << >>) =>
        /\ cres = "ok"
        /\ ccalls = {"Snapshot"}
        /\ cfacts = << >> /\ cattempted = << >>
        /\ triples = graph0

\* A Consolidate over a buffer holding only expired entries has returned.
C8_Witness ==
    /\ cpc = "done" /\ csnap = << >> /\ cres = "ok"
    /\ expired # {} /\ items = << >>
    /\ cleared = {}

\* C9: when the log insert fails (the database refuses, or the content is
\* empty), Observe returns the error and nothing else happens: the buffer is
\* unchanged, no log record is added, neither the embedder nor the vector
\* store is invoked.
C9_LogFailureAborts ==
    [][\A h \in Observers :
         /\ (opc[h] = "idle" /\ opc'[h] # "idle" /\ oin'[h].content = "") =>
               (opc'[h] = "done" /\ ores'[h] = "err_log")
         /\ (opc[h] = "idle" /\ opc'[h] = "done") =>
               /\ ores'[h] = "err_log"
               /\ ocalls'[h] = {"InsertLog"}
               /\ items' = items /\ logs' = logs
               /\ vssMemories' = vssMemories /\ vssPayload' = vssPayload
         /\ (opc[h] = "done" /\ ores[h] = "err_log") =>
               /\ oid[h] \notin LogIds
               /\ oid[h] \notin Cids(items)
               /\ \A r \in vssPayload : r.log_id # oid[h]]_vars

\* An Observe of empty content has returned the validation error, the vector
\* index being enabled.
C9_Witness ==
    /\ vssEnabled
    /\ opc["h1"] = "done" /\ ores["h1"] = "err_log"
    /\ oin["h1"].content = ""
    /\ oid["h1"] \notin LogIds

\* Step 3 of Observe fails: EmbedText or UpsertEmbedding returns an error.
Step3Fails(h) ==
    /\ opc[h] = "embed" /\ opc'[h] = "done"
    /\ ores'[h] \in ObserveStep3Errors

\* C10 as stated: when step 3 fails Observe reports the error, the log record
\* stays committed, the observation is in the buffer and no embedding exists
\* for the log id.
C10_NothingRolledBack ==
    [][\A h \in Observers : Step3Fails(h) =>
          /\ oid[h] \in {r.id : r \in logs'}
          /\ oid[h] \in Cids(items')
          /\ \A r \in vssPayload' : r.log_id # oid[h]]_vars

\* C10 amended: when step 3 fails Observe reports the error and rolls nothing
\* back: the log record stays committed, the buffer append has been made and
\* is not undone (the observation is in the buffer unless another operation
\* has removed it since: an Add's capacity eviction, or the consolidation
\* task's TTL purge or Clear), and no embedding exists for the log id.
C10_AppendNeverSkipped ==
    [][\A h \in Observers : Step3Fails(h) =>
          /\ oid[h] \in {r.id : r \in logs'}
          /\ "Add" \in ocalls'[h]
          /\ items' = items
          /\ oid[h] \in Cids(items') \cup evicted' \cup expired' \cup cleared'
          /\ \A r \in vssPayload' : r.log_id # oid[h]]_vars

\* Observe has failed at step 3 with its log record and its buffer entry in
\* place.
C10_Witness ==
    /\ opc["h1"] = "done" /\ ores["h1"] \in ObserveStep3Errors
    /\ oid["h1"] \in LogIds
    /\ oid["h1"] \in Cids(items)
    /\ \A r \in vssPayload : r.log_id # oid["h1"]

\* C11: with the vector index disabled, a Recall whose graph search succeeds
\* returns success with no logs and exactly the facts SearchFacts(query, topK)
\* gives, and invokes neither the embedder, the vector search nor the log
\* store.
C11_DisabledVectorRecall ==
    [][(~vssEnabled /\ rpc = "idle" /\ rpc' # "idle") =>
          /\ rpc' = "done"
          /\ rcalls' = {"SearchFacts"}
          /\ rres' \in {"ok", "err_graph"}
          /\ rres' = "ok" =>
                /\ ~rout'.nil
                /\ rout'.logs = {}
                /\ rout'.facts = SearchFacts(triples, rquery', rtopK')]_vars

\* Scenario D: the index disabled, Recall("Alice", 5) has returned the fact
\* about Alice and no logs, the log store holding rows.
C11_Witness ==
    /\ ~vssEnabled /\ rpc = "done" /\ rres = "ok"
    /\ rquery = "Alice" /\ rtopK = 5
    /\ Len(rout.facts) = 1 /\ rout.facts[1].subject = "Alice"
    /\ rout.logs = {} /\ logs # {}

\* C12 as stated: a Recall returns at most k facts and at most k logs, k being
\* topK when topK > 0 and 5 otherwise.
C12_AtMostTopK ==
    (rpc = "done" /\ rres = "ok") =>
        LET k == IF rtopK > 0 THEN rtopK ELSE 5
        IN  Len(rout.facts) <= k /\ Cardinality(rout.logs) <= k

\* C12 amended: a Recall returns at most topK facts and at most topK logs when
\* topK > 0; when topK <= 0 each port applies its own default: at most 10
\* facts (graph search) and at most 5 logs (vector search).
C12_AtMostPortLimits ==
    (rpc = "done" /\ rres = "ok") =>
        /\ Len(rout.facts) <= (IF rtopK > 0 THEN rtopK ELSE 10)
        /\ Cardinality(rout.logs) <= (IF rtopK > 0 THEN rtopK ELSE 5)

\* A Recall with topK = 0 over more than 10 matching facts and more than 5
\* indexed logs has returned 10 facts and 5 logs.
C12_Witness ==
    /\ rpc = "done" /\ rres = "ok" /\ rtopK = 0
    /\ Len(triples) > 10 /\ Cardinality(vssPayload) > 5
    /\ Len(rout.facts) = 10 /\ Cardinality(rout.logs) = 5

RecallErrors == {"err_graph", "err_embed", "err_search", "err_fetch"}

\* C13: a Recall in which the graph search, the query embedding, the vector
\* search or the log fetch fails returns that error and no context; a context
\* is returned only with success and then carries the facts and the logs.
C13_NoPartialResult ==
    [][/\ (rpc # "done" /\ rpc' = "done") =>
             /\ rres' \in RecallErrors \cup {"ok"}
             /\ rres' \in RecallErrors => rout' = NoContext
             /\ rres' = "ok" =>
                   /\ ~rout'.nil
                   /\ rout'.facts = rfacts'
                   /\ vssEnabled => "FetchLogs" \in rcalls'
       /\ (rpc = "idle" /\ rpc' = "vector") => rout' = NoContext]_vars

\* The log fetch has failed after the graph search found facts: nothing is
\* returned.
C13_Witness ==
    /\ rpc = "done" /\ rres = "err_fetch"
    /\ rfacts # << >>
    /\ rout = NoContext

\* The triple of a fact: its subject, predicate and object.
Key(t) == <<t.subject, t.predicate, t.object>>

\* C14: after any sequence of upserts the graph store holds exactly one fact
\* per upserted (subject, predicate, object) triple, and its confidence is
\* that of the most recent upsert of the triple.
C14_UniqueLastWritten ==
    /\ \A i, j \in 1..Len(triples) :
          Key(triples[i]) = Key(triples[j]) => i = j
    /\ \A k \in 1..Len(written) :
          \E i \in 1..Len(triples) : Key(triples[i]) = Key(written[k])
    /\ \A i \in 1..Len(triples) :
          \E k \in 1..Len(written) :
             /\ Key(written[k]) = Key(triples[i])
             /\ written[k].confidence = triples[i].confidence
             /\ \A l \in (k + 1)..Len(written) : Key(written[l]) # Key(triples[i])

\* The same triple was upserted twice with different confidences: one fact is
\* stored, with the second confidence.
C14_Witness ==
    /\ Len(written) = 2
    /\ Key(written[1]) = Key(written[2])
    /\ written[1].confidence # written[2].confidence
    /\ Len(triples) = 1
    /\ triples[1].confidence = written[2].confidence

\* The fact the reference distiller is to emit for one observation: from the
\* metadata with confidence 0.9; otherwise none when the trimmed content is
\* empty; otherwise (source or "user", "notes", first 80 characters of the
\* trimmed content) with confidence 0.4.
ReferenceFact(in) ==
    IF in.metadata.subject # "" /\ in.metadata.predicate # "" /\ in.metadata.object # ""
    THEN << [subject |-> in.metadata.subject, predicate |-> in.metadata.predicate,
             object |-> in.metadata.object, confidence |-> "0.9"] >>
    ELSE IF TrimSpace(in.content) = "" THEN << >>
    ELSE << [subject |-> IF TrimSpace(in.source) = "" THEN "user" ELSE in.source,
             predicate |-> "notes",
             object |-> SubSeq(TrimSpace(in.content), 1,
                               IF Len(TrimSpace(in.content)) < 80
                               THEN Len(TrimSpace(in.content)) ELSE 80),
             confidence |-> "0.4"] >>

RECURSIVE ReferenceFacts(_)
ReferenceFacts(batch) ==
    IF batch = << >> THEN << >>
    ELSE ReferenceFact(Head(batch)) \o ReferenceFacts(Tail(batch))

\* C15: Distill maps the batch to facts one by one in input order, at most
\* one fact per observation, as ReferenceFact describes (the object of a
\* notes fact being the first 80 characters of the trimmed content); an empty
\* batch gives an empty result; the call never fails.
C15_ReferenceDistiller ==
    dpc = "done" => (derr = "nil" /\ dout = ReferenceFacts(dbatch))

\* The rows of the graph store holding the triple (s, p, o).
RowsOf(rows, s, p, o) ==
    {i \in 1..Len(rows) :
        rows[i].subject = s /\ rows[i].predicate = p /\ rows[i].object = o}

\* The graph store holds exactly one fact (s, p, o), with confidence cf.
ExactlyOne(rows, s, p, o, cf) ==
    /\ Cardinality(RowsOf(rows, s, p, o)) = 1
    /\ \A i \in RowsOf(rows, s, p, o) : rows[i].confidence = cf

\* C16: when a Consolidate returns success, every observation of its snapshot
\* (successfully observed, neither evicted nor expired) has its fact in the
\* graph store: metadata {Alice, likes, vectors} gives exactly one fact
\* (Alice, likes, vectors, 0.9), content "just chatting" from source "chat"
\* with empty metadata exactly one fact (chat, notes, "just chatting", 0.4);
\* and the buffer is empty as the call returns.
C16_ObserveThenConsolidate ==
    [][(cpc # "done" /\ cpc' = "done" /\ cres' = "ok") =>
          /\ items' = << >>
          /\ \A i \in 1..Len(csnap) :
                /\ csnap[i].cid \in {r.id : r \in logs}
                /\ (csnap[i].input.metadata =
                      [subject |-> "Alice", predicate |-> "likes", object |-> "vectors"])
                   => ExactlyOne(triples', "Alice", "likes", "vectors", "0.9")
                /\ (/\ csnap[i].input.metadata =
                          [subject |-> "", predicate |-> "", object |-> ""]
                    /\ csnap[i].input.content = "just chatting"
                    /\ csnap[i].input.source = "chat")
                   => ExactlyOne(triples', "chat", "notes", "just chatting", "0.4")]_vars

\* Scenarios B and C in one batch: both observations consolidated, both facts
\* stored, the buffer empty.
C16_Witness ==
    /\ cpc = "done" /\ cres = "ok"
    /\ Len(csnap) = 2
    /\ csnap[1].input.content = "Alice likes vectors"
    /\ csnap[2].input.content = "just chatting"
    /\ Len(triples) = 2
    /\ triples[1].subject = "Alice" /\ triples[1].confidence = "0.9"
    /\ triples[2].object = "just chatting" /\ triples[2].confidence = "0.4"
    /\ items = << >>

\* C17: a Snapshot leaves in the buffer exactly the entries whose
\* observations it returns, removing only expired ones, so a second Snapshot
\* with nothing in between returns the same sequence; an unexpired entry
\* leaves the buffer only by Clear, which removes everything, or as the
\* oldest entry of a full buffer on Add.
C17_SnapshotDoesNotClear ==
    [][/\ lastOp' = "Snapshot" =>
             /\ items' = SelectSeq(items, LAMBDA it : now < it.at + ttl)
             /\ lastOut' = [i \in 1..Len(items') |-> items'[i].input]
             /\ lastOp = "Snapshot" => (items' = items /\ lastOut' = lastOut)
       /\ \A i \in 1..Len(items) :
             (now < items[i].at + ttl /\ items[i].cid \notin Cids(items')) =>
                \/ lastOp' = "Clear"
                \/ lastOp' = "Add" /\ Len(items) = capacity /\ i = 1
       /\ lastOp' = "Clear" => items' = << >>]_vars

\* A Snapshot has purged an expired entry and left an unexpired one, which
\* it returned.
C17_Witness ==
    /\ lastOp = "Snapshot"
    /\ expired # {}
    /\ items # << >>
    /\ lastOut = [i \in 1..Len(items) |-> items[i].input]

\* The goroutines between b.mu.Lock() and b.mu.Unlock().
InCritical == {t \in Goroutines : tpc[t] # "idle"}

\* C18: at most one goroutine is inside the critical section of Add, Snapshot
\* or Clear, it is the holder of the mutex, and whenever nobody is inside the
\* buffer is what the same operations give run one at a time in the order
\* they took the lock (no torn or partially applied update).
C18_MutualExclusion ==
    /\ Cardinality(InCritical) <= 1
    /\ \A t \in InCritical : mu = t
    /\ mu = "free" => (InCritical = {} /\ items = serial /\ Len(items) <= capacity)

\* One goroutine is between the append and the slice of an Add on a full
\* buffer (capacity + 1 entries), holding the mutex; the other is outside.
C18_Witness ==
    /\ tpc["g1"] = "slice" /\ tpc["g2"] = "idle"
    /\ Len(items) = capacity + 1
    /\ mu = "g1"
    /\ serial # items

C20_AddAlwaysSucceeds ==
    [][(lastOp' = "Add" /\ nextCall' # nextCall) =>
          /\ ~panicked'
          /\ Len(items') = Min(Len(items) + 1, capacity)]_vars

\* C21: writes to the vector index are transactional: at every step of every
\* UpsertEmbedding call, and after it whatever it returned, each index row
\* visible in the database has its log-id payload row and each payload row
\* its index row; a call that fails leaves both tables as they were and one
\* that succeeds on an enabled store adds one row to each.
C21_IndexAndPayloadTogether ==
    [][/\ {r.rowid : r \in vssPayload'} = vssMemories'
       /\ Cardinality(vssPayload') = Cardinality(vssMemories')
       /\ (upc # "done" /\ upc' = "done" /\ ures' # "nil") =>
             (vssMemories' = vssMemories /\ vssPayload' = vssPayload)
       /\ (upc # "done" /\ upc' = "done" /\ ures' = "nil" /\ vssEnabled) =>
             /\ Cardinality(vssMemories') = Cardinality(vssMemories) + 1
             /\ \E r \in vssPayload' \ vssPayload : r.log_id = ulog]_vars

\* A call has failed at the payload insert, after the index insert of the
\* same transaction and after an earlier call committed its two rows.
C21_Witness ==
    /\ upc = "done" /\ ures = "err_payload"
    /\ vssMemories # {} /\ vssPayload # {}
    /\ txMemories = {}

\* C22: one background task drives consolidation.  At most one Consolidate
\* is ever executing, and only while the loop is inside its call; the loop
\* stops only when its context is cancelled; and after a Consolidate that
\* returned an error the loop is back at its select, from where a later tick
\* invokes Consolidate again unless the context is cancelled.
C22_OneLoopSurvivesErrors ==
    /\ [](/\ active <= 1
          /\ (cpc # "idle") => (lpc = "call" /\ active = 1)
          /\ (lpc = "stopped") => cancelled)
    /\ ((lpc = "select" /\ llog = "error") ~> (lpc = "call" \/ cancelled))

\* Consolidate has failed at an UpsertTriple, the loop has logged the error
\* and, the context not cancelled, it is inside the next Consolidate.
C22_Witness ==
    /\ llog = "error" /\ lpc = "call" /\ cpc = "distill"
    /\ ~cancelled /\ active = 1

\* C23: retrying a failed Consolidate is idempotent on the graph store.  When
\* a Consolidate succeeds on the buffer of an earlier one that failed after
\* committing some facts, nothing having been added, evicted or expired in
\* between, the graph store holds exactly one fact per triple distilled from
\* the snapshot, and no other, and the buffer is empty.
C23_RetryIdempotent ==
    (cpc = "done" /\ cres = "ok" /\ Len(csnap) > 0 /\ graph0 # << >>) =>
        /\ items = << >>
        /\ \A k \in 1..Len(cfacts) :
             Cardinality({i \in 1..Len(triples) : SameTriple(triples[i], cfacts[k])}) = 1
        /\ \A i \in 1..Len(triples) :
             \E k \in 1..Len(cfacts) :
                /\ SameTriple(triples[i], cfacts[k])
                /\ triples[i].confidence = cfacts[k].confidence

\* The retry has succeeded on a snapshot of two observations or more: the
\* failed attempt had committed some of its facts and the retry the others.
C23_Witness ==
    /\ cpc = "done" /\ cres = "ok" /\ Len(csnap) > 1
    /\ graph0 # << >> /\ Len(graph0) < Len(triples)
    /\ items = << >>

\* C24: in every reachable state of the engine, under any interleaving of
\* Observe, Recall and Consolidate, every observation held in the buffer has
\* its row in the log store, every embedding of the vector index is keyed by
\* the id of an existing log record, no log id has two embeddings, and an
\* Observe that is at its buffer append or at its embedding has inserted
\* its log row.
C24_LogBeforeBufferAndIndex ==
    /\ \A i \in 1..Len(items) :
          LogRow(items[i].cid, items[i].input) \in logs
    /\ \A r \in vssPayload : r.log_id \in LogIds /\ r.rowid \in vssMemories
    /\ \A r1, r2 \in vssPayload : r1.log_id = r2.log_id => r1 = r2
    /\ \A h \in Observers :
          opc[h] \in {"add", "embed"} => LogRow(oid[h], oin[h]) \in logs

\* The buffer holds an observation and the index an embedding while the
\* handler is at the embedding of a second observation, a Recall is at its
\* vector search and Consolidate is upserting.
C24_Witness ==
    /\ items # << >> /\ vssPayload # {}
    /\ opc["h1"] = "embed"
    /\ rpc = "vector"
    /\ cpc = "upsert"

\* C25: Recall is read-only.  Whether it succeeds or fails, no step of a
\* Recall changes the buffer, the log store, the graph store, the vector
\* index or the course of an Observe or of Consolidate, and every step of
\* the engine running next to Recall is a step Observe or Consolidate takes
\* without it.
C25_RecallReadOnly ==
    /\ [][recVars' # recVars => baseVars' = baseVars]_vars
    /\ [][Engine(Single)]_baseVars

\* A Recall has returned logs and facts, next to an Observe and a
\* Consolidate in progress.
C25_Witness ==
    /\ rpc = "done" /\ rres = "ok" /\ rout.logs # {} /\ rout.facts # << >>
    /\ opc["h1"] = "embed"
    /\ cpc = "upsert"

====
